---- MODULE Spec2Model ----
\* Offline-first data access of arcana-react: the three cache layers, the
\* durable queue of pending operations, the UserRepository that writes through
\* them, and the OfflineSyncService that drains the queue.
EXTENDS Integers, Sequences, FiniteSets, TLC

\* ---------------------------------------------------------------- bounds
\* Pending operations ever added to the durable queue (its auto-increment id).
MaxOps == 2
\* Repository calls (getById/create/update/delete) made in one behaviour.
MaxCalls == 2
\* Ticks of the wall clock.
MaxTime == 1
\* Identifiers the remote service hands out for created users.
MaxServerIds == 1
\* Concurrent invocations of OfflineSyncService.sync that got past its guards.
MaxRuns == 2
\* Concurrent invocations of UserRepository.syncPendingOperations.
MaxDrains == 1
\* Repository calls in progress at the same time.
MaxClients == 2
\* Times one operation is handed to a handler or sent to Remote Transport.
MaxDispatch == 3

\* ------------------------------------------------------ program constants
\* One unit of model time is one minute (60000 ms).
MsPerTick == 60000
DEFAULT_TTL == 5
LIST_TTL == 1
LONG_TTL == 60
MemMaxSize == 100
LruMaxSize == 500
RepoMaxRetries == 3

\* `null` where a key, a cached value or an error message is expected.
NoKey == <<>>
NoValue == [id |-> <<>>, data |-> "none"]
NoMessage == <<>>
NoStatus == 0

\* ------------------------------------------------------------ small helpers
Min(a, b) == IF a < b THEN a ELSE b

Remove(f, k) == [x \in (DOMAIN f) \ {k} |-> f[x]]

Put(f, k, v) == [x \in (DOMAIN f) \cup {k} |-> IF x = k THEN v ELSE f[x]]

RECURSIVE SeqWithout(_, _)
SeqWithout(s, k) ==
  IF s = <<>> THEN <<>>
  ELSE IF Head(s) = k THEN SeqWithout(Tail(s), k)
  ELSE <<Head(s)>> \o SeqWithout(Tail(s), k)

\* ------------------------------------------------------------- cache keys
\* A key is <<namespace, rest>>: `user:<id>` is <<"user:", id>>.
UserKey(id) == <<"user:", id>>

\* `users:list:<page>:<pageSize>:<search>` and `users:all`
UserListKey(page, pageSize, search) == <<"users:list:", <<page, pageSize, search>>>>
AllUsersKey == <<"users:all", <<>>>>

\* The empty string used as a key.
EmptyKey == <<"", <<>>>>

\* The characters of a namespace, for String.startsWith.
NsChars(ns) ==
  CASE ns = "" -> <<>>
    [] ns = "user:" -> <<"u", "s", "e", "r", ":">>
    [] ns = "users:list:" -> <<"u", "s", "e", "r", "s", ":", "l", "i", "s", "t", ":">>
    [] ns = "users:all" -> <<"u", "s", "e", "r", "s", ":", "a", "l", "l">>

\* key.startsWith(prefix), for a prefix no longer than the key's namespace.
StartsWith(k, prefix) ==
  /\ Len(prefix) <= Len(NsChars(k[1]))
  /\ SubSeq(NsChars(k[1]), 1, Len(prefix)) = prefix

\* The prefix invalidateListCache clears: 'users:list'.
ListPrefix == <<"u", "s", "e", "r", "s", ":", "l", "i", "s", "t">>

\* ------------------------------------------------- Layer 1: memory cache
\* cache: Map<string, CacheEntry>; `order` is the Map's insertion order.
\* new MemoryCacheService(maxSize)
MemNew(maxSize) == [entries |-> <<>>, order |-> <<>>, hits |-> 0, misses |-> 0,
                    maxSize |-> maxSize]

\* The singleton memoryCacheService.
MemEmpty == MemNew(MemMaxSize)

MemHas(m, k) == k \in DOMAIN m.entries

\* score = entry.lastAccessed - entry.accessCount * 1000, in milliseconds.
MemScore(e) == e.lastAccessed * MsPerTick - e.accessCount * 1000

\* evictLeastUsed: the first key, in insertion order, of strictly lowest score.
RECURSIVE MemLeastUsed(_, _, _)
MemLeastUsed(m, i, best) ==
  IF i > Len(m.order) THEN best
  ELSE IF best = NoKey \/ MemScore(m.entries[m.order[i]]) < MemScore(m.entries[best])
       THEN MemLeastUsed(m, i + 1, m.order[i])
       ELSE MemLeastUsed(m, i + 1, best)

MemDelete(m, k) ==
  IF MemHas(m, k)
  THEN [m EXCEPT !.entries = Remove(m.entries, k), !.order = SeqWithout(m.order, k)]
  ELSE m

\* clearByPrefix: every key that starts with the prefix is deleted.
MemClearByPrefix(m, prefix) ==
  [m EXCEPT !.entries = [k \in {x \in DOMAIN m.entries : ~StartsWith(x, prefix)} |->
                           m.entries[k]],
            !.order = SelectSeq(m.order, LAMBDA x : ~StartsWith(x, prefix))]

\* (An eviction that deletes the key it found, whatever the key.)
MemEvictAnyKey(m) ==
  LET k == MemLeastUsed(m, 1, NoKey) IN IF k = NoKey THEN m ELSE MemDelete(m, k)

\* evictLeastUsed: `if (lruKey) this.cache.delete(lruKey)`: null and the empty
\* string are falsy, so neither is deleted.
MemEvictLeastUsed(m) ==
  LET k == MemLeastUsed(m, 1, NoKey) IN
  IF k = NoKey \/ k = EmptyKey THEN m ELSE MemDelete(m, k)

\* (A set that stores nothing.)
MemSetSkipped(m, k, v, t) == m

MemSet(m, k, v, t) ==
  LET m1 == IF Cardinality(DOMAIN m.entries) >= m.maxSize /\ ~MemHas(m, k)
            THEN MemEvictLeastUsed(m) ELSE m
      e == [value |-> v, timestamp |-> t, accessCount |-> 1, lastAccessed |-> t]
  IN [m1 EXCEPT !.entries = Put(m1.entries, k, e),
                !.order = IF MemHas(m1, k) THEN m1.order ELSE Append(m1.order, k)]

\* (A get that finds nothing.)
MemMiss(m, k) == NoValue

\* get: the value returned (NoValue on a miss) and the cache afterwards.
MemGetValue(m, k) == IF MemHas(m, k) THEN m.entries[k].value ELSE NoValue

MemGet(m, k, t) ==
  IF MemHas(m, k)
  THEN [m EXCEPT !.entries[k].accessCount = @ + 1, !.entries[k].lastAccessed = t,
                 !.hits = @ + 1]
  ELSE [m EXCEPT !.misses = @ + 1]

\* --------------------------------------------- Layer 2: LRU cache with TTL
\* nodes: the Map (key -> node); head, tail, prev, next: the linked list.
\* new LRUCacheService(maxSize, defaultTTL)
LruNew(maxSize, defaultTTL) ==
  [nodes |-> <<>>, head |-> NoKey, tail |-> NoKey, hits |-> 0, misses |-> 0, evictions |-> 0,
   maxSize |-> maxSize, defaultTTL |-> defaultTTL]

\* The singleton lruCacheService.
LruEmpty == LruNew(LruMaxSize, DEFAULT_TTL)

LruHasKey(c, k) == k \in DOMAIN c.nodes

\* (A removal that repairs the next pointers only.)
LruUnlinkForward(c, k) ==
  LET n == c.nodes[k]
  IN IF n.prev # NoKey THEN [c EXCEPT !.nodes[n.prev].next = n.next]
     ELSE [c EXCEPT !.head = n.next]

LruRemoveNode(c, k) ==
  LET n == c.nodes[k]
      c1 == IF n.prev # NoKey THEN [c EXCEPT !.nodes[n.prev].next = n.next]
            ELSE [c EXCEPT !.head = n.next]
  IN IF n.next # NoKey THEN [c1 EXCEPT !.nodes[n.next].prev = n.prev]
     ELSE [c1 EXCEPT !.tail = n.prev]

LruAddToFront(c, k) ==
  LET c1 == [c EXCEPT !.nodes[k].prev = NoKey, !.nodes[k].next = c.head]
      c2 == IF c.head # NoKey THEN [c1 EXCEPT !.nodes[c.head].prev = k] ELSE c1
      c3 == [c2 EXCEPT !.head = k]
  IN IF c.tail = NoKey THEN [c3 EXCEPT !.tail = k] ELSE c3

\* (An access that leaves the list as it is.)
LruStay(c, k) == c

LruMoveToFront(c, k) ==
  IF c.head = k THEN c ELSE LruAddToFront(LruRemoveNode(c, k), k)

LruDelete(c, k) ==
  IF ~LruHasKey(c, k) THEN c
  ELSE LET c1 == LruRemoveNode(c, k) IN [c1 EXCEPT !.nodes = Remove(c1.nodes, k)]

\* clearByPrefix: delete(key) for every key that starts with the prefix, in the
\* Map's order; the result does not depend on the order.
RECURSIVE LruClearByPrefix(_, _)
LruClearByPrefix(c, prefix) ==
  LET hit == {k \in DOMAIN c.nodes : StartsWith(k, prefix)} IN
  IF hit = {} THEN c
  ELSE LruClearByPrefix(LruDelete(c, CHOOSE k \in hit : TRUE), prefix)

\* (An eviction that removes nothing.)
LruEvictNone(c) == c

\* (A clear that leaves the counters as they are.)
LruClearEntries(c) == [c EXCEPT !.nodes = <<>>, !.head = NoKey, !.tail = NoKey]

LruEvictLRU(c) ==
  IF c.tail = NoKey THEN c
  ELSE LET k == c.tail
           c1 == LruRemoveNode(c, k)
       IN [c1 EXCEPT !.nodes = Remove(c1.nodes, k), !.evictions = @ + 1]

\* (A set that makes room before it looks whether the key is stored.)
LruSetEvicting(c, k, v, ttl, t) ==
  LET c1 == IF Cardinality(DOMAIN c.nodes) >= c.maxSize THEN LruEvictLRU(c) ELSE c
      n == [value |-> v, expiresAt |-> t + ttl, createdAt |-> t,
            prev |-> NoKey, next |-> NoKey]
  IN IF LruHasKey(c1, k)
     THEN LruMoveToFront([c1 EXCEPT !.nodes[k].value = v, !.nodes[k].expiresAt = t + ttl,
                                    !.nodes[k].createdAt = t], k)
     ELSE LruAddToFront([c1 EXCEPT !.nodes = Put(c1.nodes, k, n)], k)

LruSet(c, k, v, ttl, t) ==
  IF LruHasKey(c, k)
  THEN LruMoveToFront([c EXCEPT !.nodes[k].value = v, !.nodes[k].expiresAt = t + ttl,
                                !.nodes[k].createdAt = t], k)
  ELSE LET c1 == IF Cardinality(DOMAIN c.nodes) >= c.maxSize THEN LruEvictLRU(c) ELSE c
           n == [value |-> v, expiresAt |-> t + ttl, createdAt |-> t,
                 prev |-> NoKey, next |-> NoKey]
       IN LruAddToFront([c1 EXCEPT !.nodes = Put(c1.nodes, k, n)], k)

LruLive(c, k, t) == LruHasKey(c, k) /\ ~(t > c.nodes[k].expiresAt)

LruGetValue(c, k, t) == IF LruLive(c, k, t) THEN c.nodes[k].value ELSE NoValue

LruGet(c, k, t) ==
  IF ~LruHasKey(c, k) THEN [c EXCEPT !.misses = @ + 1]
  ELSE IF t > c.nodes[k].expiresAt THEN [LruDelete(c, k) EXCEPT !.misses = @ + 1]
  ELSE [LruMoveToFront(c, k) EXCEPT !.hits = @ + 1]

\* has: an expired entry is deleted; nothing is moved or counted.
LruHas(c, k, t) == IF LruHasKey(c, k) /\ t > c.nodes[k].expiresAt THEN LruDelete(c, k) ELSE c

\* (A touch that leaves an entry past its expiresAt as it is.)
LruTouchLive(c, k, ttl, t) ==
  IF ~LruLive(c, k, t) THEN c
  ELSE LruMoveToFront([c EXCEPT !.nodes[k].expiresAt = t + ttl], k)

\* touch: a stored key gets a new expiresAt and moves to the front; the old
\* expiresAt is not looked at.
LruTouch(c, k, ttl, t) ==
  IF ~LruHasKey(c, k) THEN c
  ELSE LruMoveToFront([c EXCEPT !.nodes[k].expiresAt = t + ttl], k)

\* getTTL: the remaining time, or null (here 0) when none is left.
LruGetTTL(c, k, t) ==
  IF LruHasKey(c, k) /\ c.nodes[k].expiresAt - t > 0 THEN c.nodes[k].expiresAt - t ELSE 0

\* cleanupExpired, run every minute: delete(key) for every expired key.
RECURSIVE LruCleanupExpired(_, _)
LruCleanupExpired(c, t) ==
  LET old == {k \in DOMAIN c.nodes : t > c.nodes[k].expiresAt} IN
  IF old = {} THEN c
  ELSE LruCleanupExpired(LruDelete(c, CHOOSE k \in old : TRUE), t)

LruClear(c) ==
  [c EXCEPT !.nodes = <<>>, !.head = NoKey, !.tail = NoKey,
            !.hits = 0, !.misses = 0, !.evictions = 0]

MemClear(m) == [m EXCEPT !.entries = <<>>, !.order = <<>>, !.hits = 0, !.misses = 0]

\* ------------------------------------- Layer 3: IndexedDB `cache` table
\* (A record counts whatever its expiresAt.)
IdbStored(d, k, t) == k \in DOMAIN d

IdbLive(d, k, t) == k \in DOMAIN d /\ ~(t > d[k].expiresAt)

IdbGetValue(d, k, t) == IF IdbLive(d, k, t) THEN d[k].value ELSE NoValue

\* getCache deletes an expired record it finds.
IdbGet(d, k, t) == IF k \in DOMAIN d /\ t > d[k].expiresAt THEN Remove(d, k) ELSE d

IdbSet(d, k, v, ttl, t) ==
  Put(d, k, [value |-> v, timestamp |-> t, expiresAt |-> t + ttl, version |-> 1])

IdbDelete(d, k) == IF k \in DOMAIN d THEN Remove(d, k) ELSE d

\* cleanupExpiredCache: the records with expiresAt < now are deleted.
IdbCleanupExpired(d, t) == [k \in {x \in DOMAIN d : ~(d[x].expiresAt < t)} |-> d[k]]

\* ------------------------------------------------ remote transport errors
\* An error message is the sequence of its words; `includes` looks for a word.
Includes(msg, w) == \E i \in 1..Len(msg) : msg[i] = w

AppError(msg, cat) == [category |-> cat, message |-> msg]

NetworkError(msg) == AppError(msg, "NETWORK")

\* AppError.fromHttpStatus(status, message); NoMessage is `undefined`.
FromHttpStatus(st, msg) ==
  CASE st = 400 -> AppError(IF msg = NoMessage THEN <<"Bad", "request">> ELSE msg, "VALIDATION")
    [] st = 401 -> AppError(IF msg = NoMessage THEN <<"Authentication", "required">> ELSE msg,
                            "AUTHENTICATION")
    [] st = 403 -> AppError(IF msg = NoMessage THEN <<"Access", "denied">> ELSE msg,
                            "AUTHORIZATION")
    [] st = 404 -> AppError((IF msg = NoMessage THEN <<"Resource">> ELSE msg) \o <<"not", "found">>,
                            "NOT_FOUND")
    [] st = 409 -> AppError(IF msg = NoMessage THEN <<"Resource", "conflict">> ELSE msg, "CONFLICT")
    [] st \in {500, 502, 503} ->
         AppError(IF msg = NoMessage THEN <<"Internal", "server", "error">> ELSE msg, "SERVER")
    [] OTHER -> AppError(IF msg = NoMessage THEN <<"Unknown", "error">> ELSE msg, "UNKNOWN")

\* What a request can come back with: a response status and body message, or
\* no response at all (connection lost, timeout).
HttpStatuses == {404, 500}
ServerMessages == {NoMessage, <<"upstream", "network", "failure">>}

\* ApiService.handleError. `e` is what the axios promise chain rejected with:
\* a response status and body message; or a request without response (timeout,
\* connection lost); or neither, with the error's own message.
HandleError(e) ==
  IF e.status # NoStatus THEN FromHttpStatus(e.status, e.message)
  ELSE IF e.request THEN NetworkError(<<"Server", "not", "responding">>)
  ELSE AppError(IF e.message = NoMessage THEN <<"Request", "failed">> ELSE e.message,
                "UNKNOWN")

\* The request interceptor rejects with AppError.network('No internet
\* connection') while navigator.onLine is false; the rejection reaches the
\* response interceptor's error handler, handleError, like any other.
OfflineRejection ==
  HandleError([status |-> NoStatus, request |-> FALSE,
               message |-> <<"No", "internet", "connection">>])

FailedResponses ==
  {[status |-> st, request |-> TRUE, message |-> m] :
      st \in HttpStatuses, m \in ServerMessages}
    \cup {[status |-> NoStatus, request |-> TRUE, message |-> NoMessage]}

\* The catch blocks of create/update/delete: the offline fallback is taken when
\* the error's message includes the text `network`.
FallsBackOffline(err) == Includes(err.message, "network")

\* ------------------------------- IndexedDB `pendingOperations` table
RECURSIVE AscSeq(_)
AscSeq(S) ==
  IF S = {} THEN <<>>
  ELSE LET m == CHOOSE x \in S : \A y \in S : x <= y IN <<m>> \o AscSeq(S \ {m})

\* (A sort that is not stable: an operation goes before those of its own
\* timestamp.)
RECURSIVE InsertBeforeEqual(_, _)
InsertBeforeEqual(sorted, op) ==
  IF sorted = <<>> THEN <<op>>
  ELSE IF Head(sorted).timestamp < op.timestamp
       THEN <<Head(sorted)>> \o InsertBeforeEqual(Tail(sorted), op)
       ELSE <<op>> \o sorted

RECURSIVE InsertByTimestamp(_, _)
InsertByTimestamp(sorted, op) ==
  IF sorted = <<>> THEN <<op>>
  ELSE IF Head(sorted).timestamp <= op.timestamp
       THEN <<Head(sorted)>> \o InsertByTimestamp(Tail(sorted), op)
       ELSE <<op>> \o sorted

RECURSIVE SortByTimestamp(_)
SortByTimestamp(s) ==
  IF s = <<>> THEN <<>>
  ELSE InsertByTimestamp(SortByTimestamp(SubSeq(s, 1, Len(s) - 1)), s[Len(s)])

\* The stored records whose ids are in S, in primary-key order.
OpsInIdOrder(q, S) == LET ids == AscSeq(S) IN [i \in 1..Len(ids) |-> q[ids[i]]]

AddPendingOperation(q, id, type, entity, entityId, payload, maxRetries, t) ==
  Put(q, id, [id |-> id, type |-> type, entity |-> entity, entityId |-> entityId,
              payload |-> payload, maxRetries |-> maxRetries, timestamp |-> t,
              retries |-> 0, status |-> "pending"])

\* where('status').equals('pending').sortBy('timestamp')
GetPendingOperations(q) ==
  SortByTimestamp(OpsInIdOrder(q, {i \in DOMAIN q : q[i].status = "pending"}))

\* where('entity').equals(entity).and(status === 'pending').toArray()
GetPendingOperationsByEntity(q, entity) ==
  OpsInIdOrder(q, {i \in DOMAIN q : q[i].entity = entity /\ q[i].status = "pending"})

\* Table.update changes nothing when the key is gone.
UpdateOpStatus(q, id, st) ==
  IF id \in DOMAIN q THEN [q EXCEPT ![id].status = st] ELSE q

UpdateOpStatusRetries(q, id, st, n) ==
  IF id \in DOMAIN q THEN [q EXCEPT ![id].status = st, ![id].retries = n] ELSE q

\* (A delete that removes nothing.)
KeepPendingOperation(q, id) == q

DeletePendingOperation(q, id) == IF id \in DOMAIN q THEN Remove(q, id) ELSE q

CleanupOldOperations(q, maxAge, t) ==
  LET old == {i \in DOMAIN q : q[i].timestamp < t - maxAge /\ q[i].status # "pending"}
  IN [i \in (DOMAIN q) \ old |-> q[i]]

GetPendingCount(q) == Cardinality({i \in DOMAIN q : q[i].status = "pending"})

\* ------------------------------------------------------------------ state
VARIABLES
  online,       \* navigator.onLine
  netStatus,    \* NetworkStatusService: the networkStatus signal
  lastSeen,     \* the last value distinctUntilChanged let through
  debounced,    \* the value debounceTime is holding back, or "none"
  now,          \* Date.now()
  dbFaulty,     \* the storage driver currently rejects every request
  ops,          \* IndexedDB pendingOperations: id -> record
  nextId,       \* its auto-increment key
  idb,          \* IndexedDB cache table
  mem,          \* MemoryCacheService
  lru,          \* LRUCacheService
  status,       \* OfflineSyncService.status
  syncedCount, failedCount,
  pendingCount, \* OfflineSyncService.pendingCount (read by hasPending)
  initCount,    \* the constructor's updatePendingCount() has not resolved yet
  handlers,     \* entity types with a registered sync handler
  runs,         \* invocations of OfflineSyncService.sync past its guards
  drains,       \* invocations of UserRepository.syncPendingOperations
  clients,      \* the Repository call in progress, if any
  calls,        \* Repository calls made so far
  nextServerId, \* the remote service's id counter
  probe,        \* a cache instance's calls: the last one, what it returned, the history
  boot,         \* IndexedDbService: the opening of the database and the early accessors
  http,         \* ApiService and CsrfTokenService: tokens, and the requests put on the wire
  sent,         \* requests that reached Remote Transport
  dispatched    \* per operation id: times it was handed to a handler or sent

\* State of the units exercised on their own.
unitVars == <<probe, boot, http>>
netVars == <<online, netStatus, lastSeen, debounced>>
storeVars == <<ops, nextId, idb>>
cacheVars == <<mem, lru>>
engineVars == <<status, syncedCount, failedCount, pendingCount, initCount, handlers, runs>>
repoVars == <<drains, clients, calls>>
remoteVars == <<nextServerId, sent, dispatched>>
vars == <<netVars, now, unitVars, dbFaulty, storeVars, cacheVars, engineVars, repoVars, remoteVars>>

otherThanNet == <<now, unitVars, dbFaulty, storeVars, cacheVars, engineVars, repoVars, remoteVars>>
otherThanEngine == <<netVars, now, unitVars, dbFaulty, nextId, idb, cacheVars, repoVars,
                     remoteVars>>

\* ------------------------------------------------------------------ Init
\* base, handled and clean are history: syncedCount when the snapshot was read,
\* whether every entity type of the snapshot had a handler then, and whether no
\* handler has rejected and no storage request has failed since.
IdleRun == [pc |-> "idle", snap |-> <<>>, idx |-> 0, lastTs |-> 0,
            base |-> 0, handled |-> FALSE, clean |-> FALSE, tried |-> <<>>]
IdleDrain == [pc |-> "idle", snap |-> <<>>, idx |-> 0, lastTs |-> 0, user |-> NoValue]
IdleClient == [pc |-> "idle", kind |-> "none", id |-> <<>>, dto |-> "none",
               existing |-> NoValue, user |-> NoValue, ret |-> NoValue,
               result |-> "none", remoteErr |-> "none", sawOnline |-> FALSE,
               sawOffline |-> FALSE, enq |-> 0, probed |-> <<>>, hit |-> "none",
               query |-> <<>>, idx |-> 0, rt |-> 0, raced |-> FALSE, early |-> FALSE,
               turn |-> 0]

\* No call made yet on a cache instance exercised on its own. `layer` is the
\* class under exercise; n counts the calls; op, key, value, ttl are the last
\* call and ret, ok, num what it returned (a value, a boolean, a number); at is
\* Date.now() at that call. History: order lists the stored keys of the LRU
\* cache by their latest access (set, successful get or touch), latest first;
\* written[k] is the latest set of k (value, time, ttl) and whether k has been
\* left alone since (no touch, delete, clear or eviction of k); dead holds the
\* keys whose entry was seen with the clock past its expiresAt and that have
\* not been set again; fresh tells that the call is a get of the key the call
\* just before it set, at the same Date.now(), and what that set wrote; twice
\* tells that the call is a clear() and the call before it was one too, mid
\* that the call is on a key whose node had a node on either side.
NoProbe == [layer |-> "none", n |-> 0, op |-> "none", key |-> NoKey, value |-> NoValue,
            twice |-> FALSE, mid |-> FALSE, ttl |-> 0, ret |-> NoValue, ok |-> FALSE,
            num |-> 0, at |-> 0,
            order |-> <<>>, written |-> <<>>, dead |-> {},
            fresh |-> [set |-> FALSE, value |-> NoValue, ttl |-> 0]]

\* ------------------------------------ IndexedDbService: init / ensureReady
MaxAccessors == 3

\* What db.open() can reject with.
OpenErrors == {"VersionError", "QuotaExceededError"}

\* An accessor call (getCache, addPendingOperation, ...): waited tells that it
\* had to await init(), late that it was made after the opening had failed,
\* early that its table operation was issued while the database was not open.
IdleAccessor == [pc |-> "idle", err |-> "none", waited |-> FALSE, late |-> FALSE,
                 early |-> FALSE]

\* The fields as declared: no initPromise, not initialized. inits counts
\* the init() calls and opens the db.open() calls, db is the state of the
\* Dexie database, settled tells that db.open() has settled and init's body
\* has not resumed yet, err is what init's promise rejected with, tableOps
\* counts the table operations issued.
BootNew == [initPromise |-> "null", initialized |-> FALSE, opens |-> 0, inits |-> 0,
            db |-> "closed",
            settled |-> FALSE, err |-> "none", tableOps |-> 0,
            accessors |-> [a \in 1..MaxAccessors |-> IdleAccessor]]

\* (An init that opens the database whenever it is called.)
InitCallAlways(b) ==
  [b EXCEPT !.inits = @ + 1, !.initPromise = IF @ = "null" THEN "pending" ELSE @,
            !.opens = @ + 1, !.db = IF @ = "closed" THEN "opening" ELSE @]

\* init() up to its await: an existing initPromise is returned; else the
\* promise is created and db.open() is called.
InitCall(b) ==
  IF b.initPromise # "null" THEN [b EXCEPT !.inits = @ + 1]
  ELSE [b EXCEPT !.inits = @ + 1, !.initPromise = "pending", !.opens = @ + 1,
                 !.db = "opening"]

\* (An ensureReady that never waits.)
EnsureReadySkipped(b) == "ready"

\* ensureReady(): what the accessor's await is on: nothing ("ready") when
\* initialized, else the promise init() returns.
EnsureReady(b) == IF b.initialized THEN "ready" ELSE InitCall(b).initPromise

\* The constructor: new ArcanaDB(), then this.init().
BootStart == InitCall(BootNew)

\* ------------------------------------------- ApiService, CsrfTokenService
\* authToken: localStorage holds an auth token; token (0 is null), tokenExpiry
\* and refreshing (tokenRefreshPromise is set) are CsrfTokenService's fields,
\* generated counts generateToken(); wire holds the requests that left, each
\* with its method and the names of its headers; last is the config the
\* csrfInterceptor returned when called directly. promised is the token that
\* tokenRefreshPromise resolves with. getters are the callers of getToken and
\* forceRefresh: ret is the token the call's promise resolves with, how tells
\* which return of getToken it took, and epoch numbers the stretch between
\* two resets (clearToken, forceRefresh, the token expiring) in which the
\* call was issued, forced that it was made by forceRefresh; resets counts
\* those resets.
MaxGetters == 3

IdleGetter == [pc |-> "idle", ret |-> 0, how |-> "none", epoch |-> 0, forced |-> FALSE]

HttpStart == [authToken |-> FALSE, token |-> 0, tokenExpiry |-> 0, refreshing |-> FALSE,
              promised |-> 0, generated |-> 0, wire |-> {},
              last |-> [method |-> "none", headers |-> {}, token |-> 0],
              resets |-> 0, getters |-> [g \in 1..MaxGetters |-> IdleGetter]]

\* The state after the modules are loaded, but for the cache layers, the
\* pendingOperations table and the replays of the Repository.
InitButDrains ==
  /\ online \in BOOLEAN
  /\ netStatus = (IF online THEN "online" ELSE "offline")
  /\ lastSeen = "none"
  /\ debounced = "none"
  /\ now = 0
  /\ dbFaulty = FALSE
  /\ status = "idle"
  /\ syncedCount = 0
  /\ failedCount = 0
  /\ pendingCount = 0
  /\ initCount = TRUE
  /\ handlers = {}
  /\ runs = [r \in 1..MaxRuns |-> IdleRun]
  /\ clients = [c \in 1..MaxClients |-> IdleClient]
  /\ calls = 0
  /\ nextServerId = 1
  /\ sent = {}
  /\ dispatched = [i \in 1..MaxOps |-> 0]

\* No replay of the Repository is in progress; at most MaxDrains run side by
\* side.
InitButLayers ==
  /\ InitButDrains
  /\ drains = [d \in 1..MaxDrains |-> IdleDrain]

\* The same with the singleton caches, but for the two IndexedDB tables.
InitButStore ==
  /\ InitButLayers
  /\ mem = MemEmpty
  /\ lru = LruEmpty
  /\ probe = NoProbe
  /\ boot = BootStart
  /\ http = HttpStart

\* The same with an empty IndexedDB `cache` table.
InitButQueue ==
  /\ InitButStore
  /\ idb = <<>>

\* A first start: the pendingOperations table is empty.
Init ==
  /\ InitButQueue
  /\ ops = <<>>
  /\ nextId = 1

\* A restart: the table holds what earlier sessions left pending, the records
\* of UserRepository's offline updates of a user the service knows, each with
\* one attempt left, in the order they were added, the clock never having gone
\* back.
StoredOp(id, type, t, retries) ==
  [AddPendingOperation(<<>>, id, type, "user", <<"srv", 1>>, "b", RepoMaxRetries, t)[id]
     EXCEPT !.retries = retries]

StoredQueues ==
  {q \in UNION {[1..n -> {StoredOp(0, "update", t, RepoMaxRetries - 1) : t \in 0..MaxTime}] :
                  n \in 0..MaxOps} :
     \A i \in DOMAIN q : \A j \in DOMAIN q : i < j => q[i].timestamp <= q[j].timestamp}

InitStored ==
  /\ InitButQueue
  /\ \E q \in StoredQueues : ops = [i \in DOMAIN q |-> [q[i] EXCEPT !.id = i]]
  /\ nextId = Cardinality(DOMAIN ops) + 1

\* A restart with users of the service in the IndexedDB `cache` table, written
\* by cacheUser in an earlier session: some LONG_TTL ago, so that they expire
\* once the clock moves, or just now. Memory and LRU start empty.
StoredUser(id, data, expiresAt) ==
  IdbSet(<<>>, UserKey(id), [id |-> id, data |-> data], LONG_TTL, expiresAt - LONG_TTL)

StoredCaches ==
  {<<>>} \cup {StoredUser(<<"srv", n>>, data, e) :
                 n \in 1..MaxServerIds, data \in {"a", "b"}, e \in {0, LONG_TTL}}

InitCached ==
  /\ InitButStore
  /\ idb \in StoredCaches
  /\ ops = <<>>
  /\ nextId = 1

\* ------------------------------------------------------------ environment
\* Date.now() moves on.
Tick == /\ now < MaxTime
        /\ now' = now + 1
        /\ UNCHANGED <<netVars, dbFaulty, unitVars, storeVars, cacheVars, engineVars, repoVars,
                       remoteVars>>

\* The storage driver starts, or stops, rejecting requests.
DbFail == /\ ~dbFaulty
          /\ dbFaulty' = TRUE
          /\ UNCHANGED <<netVars, now, unitVars, storeVars, cacheVars, engineVars, repoVars,
                         remoteVars>>

DbRecover == /\ dbFaulty
             /\ dbFaulty' = FALSE
             /\ UNCHANGED <<netVars, now, unitVars, storeVars, cacheVars, engineVars, repoVars,
                            remoteVars>>

\* --------------------------------------------- OfflineSyncService.sync
FreeRuns == {r \in 1..MaxRuns : runs[r].pc = "idle"}
FreeDrains == {d \in DOMAIN drains : drains[d].pc = "idle"}
LowestOf(S) == CHOOSE x \in S : \A y \in S : x <= y

\* The next operation of the snapshot, from index i on, whose entity type has a
\* handler; syncOperation returns at once for the others.
RECURSIVE NextHandled(_, _, _)
NextHandled(snap, i, hs) ==
  IF i > Len(snap) THEN i
  ELSE IF snap[i].entity \in hs THEN i
  ELSE NextHandled(snap, i + 1, hs)

\* sync() up to its first await: the two guards, then status = SYNCING.
SyncGuardsPass == status # "syncing" /\ online

SyncCall ==
  IF SyncGuardsPass
  THEN /\ FreeRuns # {}
       /\ status' = "syncing"
       /\ runs' = [runs EXCEPT ![LowestOf(FreeRuns)] = [IdleRun EXCEPT !.pc = "read"]]
  ELSE UNCHANGED <<status, runs>>

\* (A loop that hands the operation it was at to the handler again.)
ProceedInPlace(r, run, j) ==
  LET k == NextHandled(run.snap, IF run.idx = 0 THEN j ELSE run.idx, handlers) IN
  IF k > Len(run.snap)
  THEN /\ runs' = [runs EXCEPT ![r] = [run EXCEPT !.pc = "count", !.idx = k]]
       /\ status' = "success"
  ELSE /\ runs' = [runs EXCEPT ![r] = [run EXCEPT !.pc = "mark", !.idx = k]]
       /\ UNCHANGED status

\* The for-loop moves on to the operation at index j or, past the end, sync()
\* sets SUCCESS and goes to its finally block.
Proceed(r, run, j) ==
  LET k == NextHandled(run.snap, j, handlers) IN
  IF k > Len(run.snap)
  THEN /\ runs' = [runs EXCEPT ![r] = [run EXCEPT !.pc = "count", !.idx = k]]
       /\ status' = "success"
  ELSE /\ runs' = [runs EXCEPT ![r] = [run EXCEPT !.pc = "mark", !.idx = k]]
       /\ UNCHANGED status

\* (A catch block that leaves status as it is.)
SyncCatchKeepsStatus(r) ==
  /\ UNCHANGED status
  /\ runs' = [runs EXCEPT ![r].pc = "count", ![r].clean = FALSE]

\* sync()'s catch block.
SyncCatch(r) ==
  /\ status' = "failed"
  /\ runs' = [runs EXCEPT ![r].pc = "count", ![r].clean = FALSE]

\* await indexedDbService.getPendingOperations()
RunRead(r) ==
  /\ runs[r].pc = "read"
  /\ IF dbFaulty THEN SyncCatch(r)
     ELSE LET snap == GetPendingOperations(ops) IN
          Proceed(r, [runs[r] EXCEPT !.snap = snap, !.base = syncedCount, !.clean = TRUE,
                                     !.handled = \A i \in 1..Len(snap) :
                                                   snap[i].entity \in handlers], 1)
  /\ UNCHANGED <<ops, syncedCount, failedCount, pendingCount, initCount, handlers>>
  /\ UNCHANGED otherThanEngine

\* await updatePendingOperation(op.id, {status: 'processing'}), then the handler
\* is called.
RunMark(r) ==
  LET op == runs[r].snap[runs[r].idx] IN
  /\ runs[r].pc = "mark"
  /\ dispatched[op.id] < MaxDispatch
  /\ IF dbFaulty
     THEN /\ runs' = [runs EXCEPT ![r].pc = "catch", ![r].clean = FALSE]
          /\ UNCHANGED <<ops, dispatched>>
     ELSE /\ ops' = UpdateOpStatus(ops, op.id, "processing")
          /\ runs' = [runs EXCEPT ![r].pc = "handler", ![r].lastTs = op.timestamp,
                                   ![r].tried = Append(@, op.id)]
          /\ dispatched' = [dispatched EXCEPT ![op.id] = @ + 1]
  /\ UNCHANGED <<status, syncedCount, failedCount, pendingCount, initCount, handlers>>
  /\ UNCHANGED <<netVars, now, unitVars, dbFaulty, nextId, idb, cacheVars, repoVars,
                 nextServerId, sent>>

\* The handler's promise settles: it resolves or it rejects.
RunHandler(r) ==
  /\ runs[r].pc = "handler"
  /\ \E ok \in BOOLEAN :
       runs' = [runs EXCEPT ![r].pc = IF ok THEN "delete" ELSE "catch",
                            ![r].clean = @ /\ ok]
  /\ UNCHANGED <<ops, status, syncedCount, failedCount, pendingCount, initCount, handlers>>
  /\ UNCHANGED otherThanEngine

\* await deletePendingOperation(op.id); syncedCount++
RunDelete(r) ==
  LET op == runs[r].snap[runs[r].idx] IN
  /\ runs[r].pc = "delete"
  /\ IF dbFaulty
     THEN /\ runs' = [runs EXCEPT ![r].pc = "catch", ![r].clean = FALSE]
          /\ UNCHANGED <<ops, syncedCount, status>>
     ELSE /\ ops' = DeletePendingOperation(ops, op.id)
          /\ syncedCount' = syncedCount + 1
          /\ Proceed(r, runs[r], runs[r].idx + 1)
  /\ UNCHANGED <<failedCount, pendingCount, initCount, handlers>>
  /\ UNCHANGED otherThanEngine

\* (One attempt too many: `failed` only once retries exceeds maxRetries.)
RetriesExceeded(retries, maxRetries) == retries > maxRetries

\* syncOperation's catch block: retries = op.retries + 1, then `failed` once
\* retries >= op.maxRetries, else back to `pending`.
RetriesExhausted(retries, maxRetries) == retries >= maxRetries

RunCatch(r) ==
  LET op == runs[r].snap[runs[r].idx]
      retries == op.retries + 1
  IN
  /\ runs[r].pc = "catch"
  /\ IF dbFaulty
     THEN /\ SyncCatch(r)
          /\ UNCHANGED <<ops, failedCount>>
     ELSE IF RetriesExhausted(retries, op.maxRetries)
     THEN /\ ops' = UpdateOpStatusRetries(ops, op.id, "failed", retries)
          /\ failedCount' = failedCount + 1
          /\ Proceed(r, runs[r], runs[r].idx + 1)
     ELSE /\ ops' = UpdateOpStatusRetries(ops, op.id, "pending", retries)
          /\ UNCHANGED failedCount
          /\ Proceed(r, runs[r], runs[r].idx + 1)
  /\ UNCHANGED <<syncedCount, pendingCount, initCount, handlers>>
  /\ UNCHANGED otherThanEngine

\* finally { await this.updatePendingCount() }
RunCount(r) ==
  /\ runs[r].pc = "count"
  /\ pendingCount' = IF dbFaulty THEN pendingCount ELSE GetPendingCount(ops)
  /\ runs' = [runs EXCEPT ![r] = IdleRun]
  /\ UNCHANGED <<ops, status, syncedCount, failedCount, initCount, handlers>>
  /\ UNCHANGED otherThanEngine

\* ------------------------------- UserRepository.syncPendingOperations
\* Up to its first await: the online guard, then the read is requested.
RepoSyncCall ==
  IF online
  THEN /\ FreeDrains # {}
       /\ drains' = [drains EXCEPT ![LowestOf(FreeDrains)] = [IdleDrain EXCEPT !.pc = "read"]]
  ELSE UNCHANGED drains

\* ----------------------------------------- OfflineSyncService, the rest
\* interval(30000).pipe(filter(online && hasPending)).subscribe(() => sync())
PeriodicTick ==
  /\ online /\ pendingCount > 0
  /\ SyncGuardsPass
  /\ SyncCall
  /\ UNCHANGED <<ops, syncedCount, failedCount, pendingCount, initCount, handlers>>
  /\ UNCHANGED otherThanEngine

ForceSync ==
  /\ SyncGuardsPass
  /\ SyncCall
  /\ UNCHANGED <<ops, syncedCount, failedCount, pendingCount, initCount, handlers>>
  /\ UNCHANGED otherThanEngine

ResetStats ==
  /\ syncedCount' = 0
  /\ failedCount' = 0
  /\ status' = "idle"
  /\ UNCHANGED <<ops, pendingCount, initCount, handlers, runs>>
  /\ UNCHANGED otherThanEngine

\* clearFailed: cleanupOldOperations(0), then failedCount = 0.
ClearFailed ==
  /\ ~dbFaulty
  /\ ops' = CleanupOldOperations(ops, 0, now)
  /\ failedCount' = 0
  /\ UNCHANGED <<status, syncedCount, pendingCount, initCount, handlers, runs>>
  /\ UNCHANGED otherThanEngine

EntityTypes == {"user", "doc"}

RegisterHandler(e) ==
  /\ e \notin handlers
  /\ handlers' = handlers \cup {e}
  /\ UNCHANGED <<ops, status, syncedCount, failedCount, pendingCount, initCount, runs>>
  /\ UNCHANGED otherThanEngine

\* The updatePendingCount() that initialize() starts resolves.
InitCount ==
  /\ initCount
  /\ initCount' = FALSE
  /\ pendingCount' = IF dbFaulty THEN pendingCount ELSE GetPendingCount(ops)
  /\ UNCHANGED <<ops, status, syncedCount, failedCount, handlers, runs>>
  /\ UNCHANGED otherThanEngine

\* A caller other than the Repository queues an operation of another entity
\* type through indexedDbService.addPendingOperation.
OpTypes == {"create", "update", "delete"}
MaxRetriesChoices == {1, 2}

EnqueueDoc ==
  /\ nextId <= MaxOps
  /\ ~dbFaulty
  /\ \E m \in MaxRetriesChoices :
       ops' = AddPendingOperation(ops, nextId, "update", "doc", <<"doc", 1>>, "a", m, now)
  /\ nextId' = nextId + 1
  /\ UNCHANGED <<netVars, now, unitVars, dbFaulty, idb, cacheVars, engineVars, repoVars,
                 remoteVars>>

\* ------------------------------------------------ NetworkStatusService
StatusOf(b) == IF b THEN "online" ELSE "offline"

\* The browser flips navigator.onLine and fires `online` or `offline`; the
\* event passes distinctUntilChanged and restarts the debounce timer.
WindowEvent ==
  /\ online' = ~online
  /\ IF lastSeen # StatusOf(online')
     THEN lastSeen' = StatusOf(online') /\ debounced' = StatusOf(online')
     ELSE UNCHANGED <<lastSeen, debounced>>
  /\ UNCHANGED netStatus
  /\ UNCHANGED otherThanNet

\* The debounce timer fires: updateNetworkStatus(value), which notifies the
\* subscribers of onChange$ when the status changed. A subscriber starts its
\* replay when the new status is not offline. `subs` are the subscribers: the
\* OfflineSyncService singleton ("engine") and the UserRepository singleton
\* ("repository"), each of which subscribes when its module is loaded.
EmitsOnline(prev, new) == prev # new /\ new # "offline"

DebounceFire(subs) ==
  /\ debounced # "none"
  /\ netStatus' = debounced
  /\ debounced' = "none"
  /\ UNCHANGED <<online, lastSeen>>
  /\ IF EmitsOnline(netStatus, debounced) /\ "engine" \in subs
     THEN SyncCall ELSE UNCHANGED <<status, runs>>
  /\ IF EmitsOnline(netStatus, debounced) /\ "repository" \in subs
     THEN RepoSyncCall ELSE UNCHANGED drains
  /\ UNCHANGED <<now, unitVars, dbFaulty, storeVars, cacheVars, syncedCount, failedCount,
                 pendingCount, initCount, handlers, clients, calls, remoteVars>>

\* ---------------------- UserRepository.syncPendingOperations, the loop
Request(method, id) == [method |-> method, id |-> id]
NoId == <<>>

MethodOf(type) ==
  CASE type = "create" -> "POST" [] type = "update" -> "PUT" [] OTHER -> "DELETE"

\* for (const op of pending): the next operation, or the end of the replay.
DrainNext(d) ==
  IF drains[d].idx + 1 > Len(drains[d].snap) THEN IdleDrain
  ELSE [drains[d] EXCEPT !.pc = "mark", !.idx = @ + 1, !.user = NoValue]

\* await getPendingOperationsByEntity('user')
DrainRead(d) ==
  /\ drains[d].pc = "read"
  /\ IF dbFaulty THEN drains' = [drains EXCEPT ![d] = IdleDrain]
     ELSE LET snap == GetPendingOperationsByEntity(ops, "user") IN
          drains' = [drains EXCEPT ![d] =
                       IF snap = <<>> THEN IdleDrain
                       ELSE [IdleDrain EXCEPT !.pc = "mark", !.snap = snap, !.idx = 1]]
  /\ UNCHANGED <<netVars, now, unitVars, dbFaulty, storeVars, cacheVars, engineVars, clients, calls,
                 remoteVars>>

\* await updatePendingOperation(op.id, {status: 'processing'}); the request of
\* syncCreate/syncUpdate/syncDelete is then made, and the request interceptor
\* rejects it when navigator.onLine is false.
DrainMark(d) ==
  LET op == drains[d].snap[drains[d].idx] IN
  /\ drains[d].pc = "mark"
  /\ dispatched[op.id] < MaxDispatch
  /\ IF dbFaulty
     THEN /\ drains' = [drains EXCEPT ![d].pc = "catch"]
          /\ UNCHANGED <<ops, sent, dispatched>>
     ELSE /\ ops' = UpdateOpStatus(ops, op.id, "processing")
          /\ IF online
             THEN /\ dispatched' = [dispatched EXCEPT ![op.id] = @ + 1]
                  /\ sent' = sent \cup
                       {Request(MethodOf(op.type), IF op.type = "create" THEN NoId ELSE op.entityId)}
                  /\ drains' = [drains EXCEPT ![d].pc = "api",
                                              ![d].lastTs = op.timestamp]
             ELSE /\ drains' = [drains EXCEPT ![d].pc = "catch",
                                              ![d].lastTs = op.timestamp]
                  /\ UNCHANGED <<sent, dispatched>>
  /\ UNCHANGED <<netVars, now, unitVars, dbFaulty, nextId, idb, cacheVars, engineVars, clients,
                 calls,
                 nextServerId>>

\* userMapper.toDomain of the response body. The service echoes what it was
\* sent: the created user gets the service's next id.
ServerId(n) == <<"srv", n>>
User(id, data) == [id |-> id, data |-> data]

\* The remote service issues the identifiers of its users itself: it has no
\* user under an identifier with the offline prefix, and answers a request
\* for one with an error.
KnownToService(id) == id # <<>> /\ id[1] = "srv"

\* cacheUser, up to its await: memory and LRU are written synchronously.
CacheUserSync(user) ==
  /\ mem' = MemSet(mem, UserKey(user.id), user, now)
  /\ lru' = LruSet(lru, UserKey(user.id), user, DEFAULT_TTL, now)

\* (A removal that leaves memory and LRU as they are.)
RemoveFromCacheSkipped(id) == UNCHANGED <<mem, lru>>

\* invalidateListCache: memory and LRU only.
InvalidateListCache ==
  /\ mem' = MemClearByPrefix(mem, ListPrefix)
  /\ lru' = LruClearByPrefix(lru, ListPrefix)

\* removeFromCache, up to its await.
RemoveFromCacheSync(id) ==
  /\ mem' = MemDelete(mem, UserKey(id))
  /\ lru' = LruDelete(lru, UserKey(id))

\* The response to the replayed request arrives.
\*   create: toDomain, then removeFromCache(op.entityId) up to its await;
\*   update: toDomain, then cacheUser(user) up to its await;
\*   delete: nothing more, deletePendingOperation is requested.
DrainApi(d) ==
  LET op == drains[d].snap[drains[d].idx] IN
  /\ drains[d].pc = "api"
  /\ \/ /\ op.type = "create"
        /\ nextServerId <= MaxServerIds
        /\ nextServerId' = nextServerId + 1
        /\ RemoveFromCacheSync(op.entityId)
        /\ drains' = [drains EXCEPT ![d].pc = "uncache",
                                    ![d].user = User(ServerId(nextServerId), op.payload)]
     \/ /\ op.type = "update"
        /\ KnownToService(op.entityId)
        /\ CacheUserSync(User(op.entityId, op.payload))
        /\ drains' = [drains EXCEPT ![d].pc = "cache",
                                    ![d].user = User(op.entityId, op.payload)]
        /\ UNCHANGED nextServerId
     \/ /\ op.type = "delete"
        /\ KnownToService(op.entityId)
        /\ drains' = [drains EXCEPT ![d].pc = "done"]
        /\ UNCHANGED <<nextServerId, mem, lru>>
     \/ /\ \E resp \in FailedResponses : drains' = [drains EXCEPT ![d].pc = "catch"]
        /\ UNCHANGED <<nextServerId, mem, lru>>
  /\ UNCHANGED <<netVars, now, unitVars, dbFaulty, storeVars, engineVars, clients, calls, sent,
                 dispatched>>

\* syncCreate: await indexedDbService.deleteCache(key), then cacheUser(user)
\* up to its await.
DrainUncache(d) ==
  /\ drains[d].pc = "uncache"
  /\ IF dbFaulty
     THEN /\ drains' = [drains EXCEPT ![d].pc = "catch"]
          /\ UNCHANGED <<idb, mem, lru>>
     ELSE /\ idb' = IdbDelete(idb, UserKey(drains[d].snap[drains[d].idx].entityId))
          /\ CacheUserSync(drains[d].user)
          /\ drains' = [drains EXCEPT ![d].pc = "cache"]
  /\ UNCHANGED <<netVars, now, unitVars, dbFaulty, ops, nextId, engineVars, clients, calls,
                 remoteVars>>

\* cacheUser: await indexedDbService.setCache(key, user, LONG_TTL)
DrainCache(d) ==
  /\ drains[d].pc = "cache"
  /\ IF dbFaulty
     THEN /\ drains' = [drains EXCEPT ![d].pc = "catch"]
          /\ UNCHANGED idb
     ELSE /\ idb' = IdbSet(idb, UserKey(drains[d].user.id), drains[d].user, LONG_TTL, now)
          /\ drains' = [drains EXCEPT ![d].pc = "done"]
  /\ UNCHANGED <<netVars, now, unitVars, dbFaulty, ops, nextId, cacheVars, engineVars, clients,
                 calls,
                 remoteVars>>

\* await deletePendingOperation(op.id)
DrainDelete(d) ==
  /\ drains[d].pc = "done"
  /\ IF dbFaulty
     THEN /\ drains' = [drains EXCEPT ![d].pc = "catch"]
          /\ UNCHANGED ops
     ELSE /\ ops' = DeletePendingOperation(ops, drains[d].snap[drains[d].idx].id)
          /\ drains' = [drains EXCEPT ![d] = DrainNext(d)]
  /\ UNCHANGED <<netVars, now, unitVars, dbFaulty, nextId, idb, cacheVars, engineVars, clients,
                 calls,
                 remoteVars>>

\* The catch block: `failed` (retries not stored) once op.retries + 1 reaches
\* op.maxRetries, else `pending` with the new retries. A storage error here
\* leaves syncPendingOperations through its caller.
DrainCatch(d) ==
  LET op == drains[d].snap[drains[d].idx]
      retries == op.retries + 1
  IN
  /\ drains[d].pc = "catch"
  /\ IF dbFaulty
     THEN /\ drains' = [drains EXCEPT ![d] = IdleDrain]
          /\ UNCHANGED ops
     ELSE /\ ops' = IF RetriesExhausted(retries, op.maxRetries)
                    THEN UpdateOpStatus(ops, op.id, "failed")
                    ELSE UpdateOpStatusRetries(ops, op.id, "pending", retries)
          /\ drains' = [drains EXCEPT ![d] = DrainNext(d)]
  /\ UNCHANGED <<netVars, now, unitVars, dbFaulty, nextId, idb, cacheVars, engineVars, clients,
                 calls,
                 remoteVars>>

\* userService.syncPendingOperations(): the replay started by hand.
ManualSync ==
  /\ online
  /\ RepoSyncCall
  /\ UNCHANGED <<netVars, now, unitVars, dbFaulty, storeVars, cacheVars, engineVars, clients, calls,
                 remoteVars>>

\* ------------------------------------------- UserRepository: the calls
\* A call in progress is a record: `pc` is the await it is suspended at;
\* `result` is how it ended ("ok", "null", or what it threw); remoteErr is the
\* category of the error its request to Remote Transport failed with;
\* sawOnline/sawOffline are what its isCurrentlyOnline() checks returned; enq
\* counts the pending operations it added; probed lists the layers its getById
\* has consulted, in order, and hit is the layer that had the user (for
\* getList: where the page came from); query is getList's <<page, pageSize,
\* search>> and idx its position in the loop over the users of the page; rt
\* numbers the successful responses to create and update in the order they
\* arrived, and raced tells that the response arrived while another call's
\* request or cache write was under way; early tells that the call's latest
\* request was sent before any DELETE of the same id was, and turn is the
\* place of its latest cache write in IndexedDB's queue.
Datas == {"a", "b"}
OfflineId(n) == <<"offline", n>>
UserIds == {ServerId(n) : n \in 1..MaxServerIds} \cup {OfflineId(n) : n \in 1..MaxCalls}

\* userMapper.isOfflineUser
IsOfflineUser(user) == user.id # <<>> /\ user.id[1] = "offline"

\* userMapper.applyUpdate
ApplyUpdate(user, dto) == User(user.id, dto)

otherThanClient ==
  <<netVars, dbFaulty, now, unitVars, engineVars, drains>>

\* (A call that ends by throwing whatever it was to return.)
FinishThrows(cl, result, ret) == [cl EXCEPT !.pc = "done", !.result = "thrown", !.ret = NoValue]

Finish(cl, result, ret) == [cl EXCEPT !.pc = "done", !.result = result, !.ret = ret]

\* The place in IndexedDB's queue of the write the call in slot c requests:
\* behind the writes the other calls have requested.
Ticket(c) ==
  LET earlier == {clients[c2].turn : c2 \in {x \in 1..MaxClients : x # c}}
  IN 1 + (CHOOSE x \in earlier : \A y \in earlier : y <= x)

\* The response to a create or update has arrived for the call in slot c.
Arrived(c, cl) ==
  LET others == {c2 \in 1..MaxClients : c2 # c}
      earlier == {clients[c2].rt : c2 \in others}
  IN [cl EXCEPT !.rt = 1 + (CHOOSE x \in earlier : \A y \in earlier : y <= x),
                !.raced = \E c2 \in others : clients[c2].pc \in {"api", "cache"},
                !.turn = Ticket(c)]

\* (Requests to IndexedDB served in any order.)
IdbAnyTurn(c) == TRUE

\* IndexedDB runs the readwrite transactions on one object store in the order
\* they were created: of the setCache and deleteCache requests made when the
\* responses arrived, the one made first is served first.
IdbTurn(c) ==
  \A c2 \in 1..MaxClients :
    (c2 # c /\ clients[c2].pc \in {"cache", "get_cache", "uncache"})
      => clients[c2].turn > clients[c].turn

\* isCurrentlyOnline(), remembered.
Checked(cl) == [cl EXCEPT !.sawOnline = @ \/ online, !.sawOffline = @ \/ ~online]

\* getById up to its first await: Layer 1, then Layer 2, then the Layer 3 read
\* is requested. A hit returns to the caller, which resumes at "got".
GetByIdSync(c, cl) ==
  LET key == UserKey(cl.id)
      l1 == MemGetValue(mem, key)
      mem1 == MemGet(mem, key, now)
      l2 == LruGetValue(lru, key, now)
      lru1 == LruGet(lru, key, now)
  IN
  IF l1 # NoValue
  THEN /\ mem' = mem1
       /\ lru' = lru
       /\ clients' = [clients EXCEPT ![c] = [cl EXCEPT !.pc = "got", !.existing = l1,
                                                       !.probed = <<"mem">>, !.hit = "mem"]]
  ELSE IF l2 # NoValue
  THEN /\ mem' = MemSet(mem1, key, l2, now)
       /\ lru' = lru1
       /\ clients' = [clients EXCEPT ![c] = [cl EXCEPT !.pc = "got", !.existing = l2,
                                                       !.probed = <<"mem", "lru">>,
                                                       !.hit = "lru"]]
  ELSE /\ mem' = mem1
       /\ lru' = lru1
       /\ clients' = [clients EXCEPT ![c] = [cl EXCEPT !.pc = "get_idb",
                                                       !.probed = <<"mem", "lru", "idb">>]]

\* A call to getById, update or delete begins.
ClientStartById(c) ==
  /\ clients[c].pc \in {"idle", "done"}
  /\ calls < MaxCalls
  /\ calls' = calls + 1
  /\ \E kind \in {"getById", "update", "delete"}, id \in UserIds, dto \in Datas :
       /\ kind # "update" => dto = "a"
       /\ GetByIdSync(c, [IdleClient EXCEPT !.kind = kind, !.id = id,
                            !.dto = IF kind = "update" THEN dto ELSE "none"])
  /\ UNCHANGED <<storeVars, remoteVars>>
  /\ UNCHANGED otherThanClient

\* A call to getById begins.
ClientStartGet(c) ==
  /\ clients[c].pc \in {"idle", "done"}
  /\ calls < MaxCalls
  /\ calls' = calls + 1
  /\ \E id \in UserIds : GetByIdSync(c, [IdleClient EXCEPT !.kind = "getById", !.id = id])
  /\ UNCHANGED <<storeVars, remoteVars>>
  /\ UNCHANGED otherThanClient

\* A call to update, of a user of the service, begins.
ClientStartUpdate(c) ==
  /\ clients[c].pc \in {"idle", "done"}
  /\ calls < MaxCalls
  /\ calls' = calls + 1
  /\ \E n \in 1..MaxServerIds, dto \in Datas :
       GetByIdSync(c, [IdleClient EXCEPT !.kind = "update", !.id = <<"srv", n>>, !.dto = dto])
  /\ UNCHANGED <<storeVars, remoteVars>>
  /\ UNCHANGED otherThanClient

\* getById: await indexedDbService.getCache(key). On a hit the faster layers
\* are filled. On a miss: null when offline, else the GET is sent.
ClientGetIdb(c) ==
  LET cl == clients[c]
      key == UserKey(cl.id)
      l3 == IdbGetValue(idb, key, now)
  IN
  /\ cl.pc = "get_idb"
  /\ IF dbFaulty
     THEN /\ clients' = [clients EXCEPT ![c] = Finish(cl, "storage", NoValue)]
          /\ UNCHANGED <<idb, mem, lru, sent>>
     ELSE /\ idb' = IdbGet(idb, key, now)
          /\ IF l3 # NoValue
             THEN /\ lru' = LruSet(lru, key, l3, DEFAULT_TTL, now)
                  /\ mem' = MemSet(mem, key, l3, now)
                  /\ clients' = [clients EXCEPT ![c] = [cl EXCEPT !.pc = "got", !.existing = l3,
                                                                  !.hit = "idb"]]
                  /\ UNCHANGED sent
             ELSE IF ~online
             THEN /\ clients' = [clients EXCEPT ![c] =
                                   [Checked(cl) EXCEPT !.pc = "got", !.existing = NoValue]]
                  /\ UNCHANGED <<mem, lru, sent>>
             ELSE /\ clients' = [clients EXCEPT ![c] =
                                   [Checked(cl) EXCEPT
                                      !.pc = "get_api", !.probed = Append(@, "api"),
                                      !.early = Request("DELETE", cl.id) \notin sent]]
                  /\ sent' = sent \cup {Request("GET", cl.id)}
                  /\ UNCHANGED <<mem, lru>>
  /\ UNCHANGED <<ops, nextId, calls, nextServerId, dispatched>>
  /\ UNCHANGED otherThanClient

\* getById: the GET comes back. A user is cached (memory, LRU, then the
\* IndexedDB write is awaited); an error is recorded and null returned.
ClientGetApi(c) ==
  LET cl == clients[c] IN
  /\ cl.pc = "get_api"
  /\ \/ \E data \in Datas :
          /\ KnownToService(cl.id)
          /\ CacheUserSync(User(cl.id, data))
          /\ clients' = [clients EXCEPT ![c] = [cl EXCEPT !.pc = "get_cache",
                                                          !.user = User(cl.id, data),
                                                          !.turn = Ticket(c)]]
     \/ \E resp \in FailedResponses :
          /\ clients' = [clients EXCEPT ![c] =
                           [cl EXCEPT !.pc = "got", !.existing = NoValue,
                                      !.remoteErr = HandleError(resp).category]]
          /\ UNCHANGED <<mem, lru>>
  /\ UNCHANGED <<storeVars, calls, remoteVars>>
  /\ UNCHANGED otherThanClient

\* getById: await indexedDbService.setCache inside cacheUser; its failure is
\* caught by getById's catch, which returns null.
ClientGetCache(c) ==
  LET cl == clients[c] IN
  /\ cl.pc = "get_cache"
  /\ IdbTurn(c)
  /\ IF dbFaulty
     THEN /\ clients' = [clients EXCEPT ![c] = [cl EXCEPT !.pc = "got", !.existing = NoValue]]
          /\ UNCHANGED idb
     ELSE /\ idb' = IdbSet(idb, UserKey(cl.user.id), cl.user, LONG_TTL, now)
          /\ clients' = [clients EXCEPT ![c] = [cl EXCEPT !.pc = "got", !.existing = cl.user,
                                                          !.hit = "api"]]
  /\ UNCHANGED <<ops, nextId, cacheVars, calls, remoteVars>>
  /\ UNCHANGED otherThanClient

\* createOffline / updateOffline / deleteOffline up to their first await: the
\* local entity is made and written to memory and LRU (or removed from them).
OfflineSync(c, cl) ==
  CASE cl.kind = "create" ->
         LET user == User(cl.id, cl.dto) IN
         /\ CacheUserSync(user)
         /\ clients' = [clients EXCEPT ![c] = [cl EXCEPT !.pc = "off_cache", !.user = user]]
    [] cl.kind = "update" ->
         LET user == ApplyUpdate(cl.existing, cl.dto) IN
         /\ CacheUserSync(user)
         /\ clients' = [clients EXCEPT ![c] = [cl EXCEPT !.pc = "off_cache", !.user = user]]
    [] OTHER ->
         /\ RemoveFromCacheSync(cl.id)
         /\ clients' = [clients EXCEPT ![c] = [cl EXCEPT !.pc = "off_uncache",
                                                         !.user = cl.existing]]

\* A call to create begins: offline it goes to createOffline, online the POST
\* is sent. `id` is the identifier createOfflineUser would draw for this call
\* (crypto.randomUUID never repeats).
ClientStartCreate(c) ==
  /\ clients[c].pc \in {"idle", "done"}
  /\ calls < MaxCalls
  /\ calls' = calls + 1
  /\ \E dto \in Datas :
       LET cl == Checked([IdleClient EXCEPT !.kind = "create", !.dto = dto,
                                            !.id = OfflineId(calls + 1)]) IN
       IF ~online
       THEN OfflineSync(c, cl) /\ UNCHANGED sent
       ELSE /\ clients' = [clients EXCEPT ![c] = [cl EXCEPT !.pc = "api"]]
            /\ sent' = sent \cup {Request("POST", NoId)}
            /\ UNCHANGED <<mem, lru>>
  /\ UNCHANGED <<storeVars, nextServerId, dispatched>>
  /\ UNCHANGED otherThanClient

\* getById has returned to getById's caller, update or delete: not found
\* throws; offline goes to the offline path; online the request is sent.
ClientGot(c) ==
  LET cl == clients[c] IN
  /\ cl.pc = "got"
  /\ IF cl.kind = "getById"
     THEN /\ clients' = [clients EXCEPT ![c] =
                           Finish(cl, IF cl.existing = NoValue THEN "null" ELSE "ok", cl.existing)]
          /\ UNCHANGED <<mem, lru, sent>>
     ELSE IF cl.existing = NoValue
     THEN /\ clients' = [clients EXCEPT ![c] = Finish(cl, "notFound", NoValue)]
          /\ UNCHANGED <<mem, lru, sent>>
     ELSE IF ~online
     THEN OfflineSync(c, Checked(cl)) /\ UNCHANGED sent
     ELSE /\ clients' = [clients EXCEPT ![c] =
                           [Checked(cl) EXCEPT !.pc = "api",
                                               !.early = Request("DELETE", cl.id) \notin sent]]
          /\ sent' = sent \cup {Request(IF cl.kind = "update" THEN "PUT" ELSE "DELETE", cl.id)}
          /\ UNCHANGED <<mem, lru>>
  /\ UNCHANGED <<storeVars, calls, nextServerId, dispatched>>
  /\ UNCHANGED otherThanClient

\* The response to create's POST, update's PUT or delete's DELETE arrives.
\* Success: the entity is cached (or removed) up to the IndexedDB await.
\* Failure: the catch block falls back to the offline path, or rethrows.
ClientApi(c) ==
  LET cl == clients[c] IN
  /\ cl.pc = "api"
  /\ \/ /\ cl.kind = "create"
        /\ nextServerId <= MaxServerIds
        /\ nextServerId' = nextServerId + 1
        /\ CacheUserSync(User(ServerId(nextServerId), cl.dto))
        /\ clients' = [clients EXCEPT ![c] =
                         [Arrived(c, cl) EXCEPT !.pc = "cache",
                                                !.user = User(ServerId(nextServerId), cl.dto)]]
     \/ /\ cl.kind = "update"
        /\ KnownToService(cl.id)
        /\ CacheUserSync(User(cl.id, cl.dto))
        /\ clients' = [clients EXCEPT ![c] =
                         [Arrived(c, cl) EXCEPT !.pc = "cache", !.user = User(cl.id, cl.dto)]]
        /\ UNCHANGED nextServerId
     \/ /\ cl.kind = "delete"
        /\ KnownToService(cl.id)
        /\ RemoveFromCacheSync(cl.id)
        /\ clients' = [clients EXCEPT ![c] = [cl EXCEPT !.pc = "uncache", !.turn = Ticket(c)]]
        /\ UNCHANGED nextServerId
     \/ /\ \E resp \in FailedResponses :
             LET err == HandleError(resp)
                 cl1 == [cl EXCEPT !.remoteErr = err.category]
             IN IF FallsBackOffline(err)
                THEN OfflineSync(c, cl1)
                ELSE /\ clients' = [clients EXCEPT ![c] = Finish(cl1, "remote", NoValue)]
                     /\ UNCHANGED <<mem, lru>>
        /\ UNCHANGED nextServerId
  /\ UNCHANGED <<storeVars, calls, sent, dispatched>>
  /\ UNCHANGED otherThanClient

\* create/update online: await setCache inside cacheUser, then
\* invalidateListCache and the update event; a storage error is rethrown.
ClientCache(c) ==
  LET cl == clients[c] IN
  /\ cl.pc = "cache"
  /\ IdbTurn(c)
  /\ IF dbFaulty
     THEN /\ clients' = [clients EXCEPT ![c] = Finish(cl, "storage", NoValue)]
          /\ UNCHANGED <<idb, cacheVars>>
     ELSE /\ idb' = IdbSet(idb, UserKey(cl.user.id), cl.user, LONG_TTL, now)
          /\ InvalidateListCache
          /\ clients' = [clients EXCEPT ![c] = Finish(cl, "ok", cl.user)]
  /\ UNCHANGED <<ops, nextId, calls, remoteVars>>
  /\ UNCHANGED otherThanClient

\* delete online: await deleteCache inside removeFromCache.
ClientUncache(c) ==
  LET cl == clients[c] IN
  /\ cl.pc = "uncache"
  /\ IdbTurn(c)
  /\ IF dbFaulty
     THEN /\ clients' = [clients EXCEPT ![c] = Finish(cl, "storage", NoValue)]
          /\ UNCHANGED <<idb, cacheVars>>
     ELSE /\ idb' = IdbDelete(idb, UserKey(cl.id))
          /\ InvalidateListCache
          /\ clients' = [clients EXCEPT ![c] = Finish(cl, "ok", NoValue)]
  /\ UNCHANGED <<ops, nextId, calls, remoteVars>>
  /\ UNCHANGED otherThanClient

\* createOffline/updateOffline: await setCache inside cacheUser;
\* deleteOffline: await deleteCache inside removeFromCache. Then
\* addPendingOperation is requested.
ClientOffCache(c) ==
  LET cl == clients[c] IN
  /\ cl.pc \in {"off_cache", "off_uncache"}
  /\ IF dbFaulty
     THEN /\ clients' = [clients EXCEPT ![c] = Finish(cl, "storage", NoValue)]
          /\ UNCHANGED idb
     ELSE /\ idb' = IF cl.pc = "off_cache"
                    THEN IdbSet(idb, UserKey(cl.user.id), cl.user, LONG_TTL, now)
                    ELSE IdbDelete(idb, UserKey(cl.id))
          /\ clients' = [clients EXCEPT ![c].pc = "off_enq"]
  /\ UNCHANGED <<ops, nextId, cacheVars, calls, remoteVars>>
  /\ UNCHANGED otherThanClient

\* (An operation queued without its payload.)
QueuedOpNoPayload(q, id, cl, t) ==
  AddPendingOperation(q, id, cl.kind, "user", cl.user.id, "none", RepoMaxRetries, t)

\* The operation a write queues: the request's payload, maxRetries 3.
QueuedOp(q, id, cl, t) ==
  AddPendingOperation(q, id, cl.kind, "user", cl.user.id,
                      IF cl.kind = "delete" THEN "none" ELSE cl.dto, RepoMaxRetries, t)

\* await addPendingOperation({...}); then the update event, and the call
\* returns the local entity.
ClientOffEnq(c) ==
  LET cl == clients[c] IN
  /\ cl.pc = "off_enq"
  /\ IF dbFaulty
     THEN /\ clients' = [clients EXCEPT ![c] = Finish(cl, "storage", NoValue)]
          /\ UNCHANGED <<ops, nextId>>
     ELSE /\ nextId <= MaxOps
          /\ ops' = QueuedOp(ops, nextId, cl, now)
          /\ nextId' = nextId + 1
          /\ clients' = [clients EXCEPT ![c] =
                           Finish([cl EXCEPT !.enq = @ + 1], "ok",
                                  IF cl.kind = "delete" THEN NoValue ELSE cl.user)]
  /\ UNCHANGED <<idb, cacheVars, calls, remoteVars>>
  /\ UNCHANGED otherThanClient

\* ------------------------------------------- UserRepository.getList
\* The text of a user's fields, as characters. Users of data "a" are Jane Roe
\* <jr@x>, users of data "b" are Bo Jay <bj@x>.
FirstName(user) == IF user.data = "a" THEN <<"J", "a", "n", "e">> ELSE <<"B", "o">>
LastName(user) == IF user.data = "a" THEN <<"R", "o", "e">> ELSE <<"J", "a", "y">>
Email(user) == IF user.data = "a" THEN <<"j", "r", "@", "x">> ELSE <<"b", "j", "@", "x">>

\* String.toLowerCase, character by character.
LowerChar(ch) ==
  CASE ch = "J" -> "j" [] ch = "A" -> "a" [] ch = "B" -> "b" [] ch = "R" -> "r"
    [] OTHER -> ch

ToLowerCase(str) == [i \in 1..Len(str) |-> LowerChar(str[i])]

\* String.includes
StrIncludes(str, part) ==
  \E i \in 0..(Len(str) - Len(part)) : SubSeq(str, i + 1, i + Len(part)) = part

\* Math.ceil(n / d) for n >= 0, d > 0
Ceil(n, d) == (n + d - 1) \div d

\* Array.slice(start, end) with 0 <= start <= end
Slice(arr, start, end) == SubSeq(arr, start + 1, Min(end, Len(arr)))

\* The filter of getOfflineList: an empty search term keeps every user.
UserMatches(user, search) ==
  LET searchLower == ToLowerCase(search) IN
  \/ search = <<>>
  \/ StrIncludes(ToLowerCase(FirstName(user)), searchLower)
  \/ StrIncludes(ToLowerCase(LastName(user)), searchLower)
  \/ StrIncludes(ToLowerCase(Email(user)), searchLower)

\* getOfflineList after its await: filter by the search term, then paginate.
OfflineList(allUsers, q) ==
  LET page == q[1]
      pageSize == q[2]
      search == q[3]
      filtered == SelectSeq(allUsers, LAMBDA user : UserMatches(user, search))
      start == (page - 1) * pageSize
  IN [data |-> Slice(filtered, start, start + pageSize), page |-> page,
      pageSize |-> pageSize, total |-> Len(filtered),
      totalPages |-> Ceil(Len(filtered), pageSize)]

\* The requests getList is called with: <<page, pageSize, search>>.
Queries == {<<1, 1, <<>>>>, <<2, 1, <<"J", "A">>>>}

\* userMapper.toPaginatedDomain of a response of the service: a page of its
\* users, empty or with one user (with page - 1 users on the pages before).
ServerPages(q) ==
  {[data |-> <<>>, page |-> q[1], pageSize |-> q[2], total |-> 0, totalPages |-> 0]}
    \cup {[data |-> <<User(ServerId(n), d)>>, page |-> q[1], pageSize |-> q[2],
            total |-> q[1], totalPages |-> q[1]] : n \in 1..MaxServerIds, d \in Datas}

ListKeyOf(q) == UserListKey(q[1], q[2], q[3])

\* A call to getList begins: the LRU cache is asked (memory is skipped); on a
\* miss the IndexedDB read is requested.
ClientStartList(c) ==
  /\ clients[c].pc \in {"idle", "done"}
  /\ calls < MaxCalls
  /\ calls' = calls + 1
  /\ \E q \in Queries :
       LET cl == [IdleClient EXCEPT !.kind = "getList", !.query = q]
           cached == LruGetValue(lru, ListKeyOf(q), now)
       IN
       /\ lru' = LruGet(lru, ListKeyOf(q), now)
       /\ clients' = [clients EXCEPT ![c] =
                        IF cached # NoValue
                        THEN Finish([cl EXCEPT !.hit = "lru"], "ok", cached)
                        ELSE [cl EXCEPT !.pc = "list_idb"]]
  /\ UNCHANGED <<storeVars, mem, remoteVars>>
  /\ UNCHANGED otherThanClient

\* getList: await indexedDbService.getCache(cacheKey). A hit is copied to the
\* LRU cache and returned. A miss: offline, getOfflineList; online, the GET.
ClientListIdb(c) ==
  LET cl == clients[c]
      key == ListKeyOf(cl.query)
      found == IdbGetValue(idb, key, now)
  IN
  /\ cl.pc = "list_idb"
  /\ IF dbFaulty
     THEN /\ clients' = [clients EXCEPT ![c] = Finish(cl, "storage", NoValue)]
          /\ UNCHANGED <<idb, lru, sent>>
     ELSE /\ idb' = IdbGet(idb, key, now)
          /\ IF found # NoValue
             THEN /\ lru' = LruSet(lru, key, found, DEFAULT_TTL, now)
                  /\ clients' = [clients EXCEPT ![c] =
                                   Finish([cl EXCEPT !.hit = "idb"], "ok", found)]
                  /\ UNCHANGED sent
             ELSE IF ~online
             THEN /\ clients' = [clients EXCEPT ![c] = [Checked(cl) EXCEPT !.pc = "list_off"]]
                  /\ UNCHANGED <<lru, sent>>
             ELSE /\ clients' = [clients EXCEPT ![c] = [Checked(cl) EXCEPT !.pc = "list_api"]]
                  /\ sent' = sent \cup {Request("GET", <<"users", cl.query>>)}
                  /\ UNCHANGED lru
  /\ UNCHANGED <<ops, nextId, mem, calls, nextServerId, dispatched>>
  /\ UNCHANGED otherThanClient

\* getList: the GET comes back. A page is put in the LRU cache with LIST_TTL
\* and its IndexedDB write is awaited; an error leads to getOfflineList.
ClientListApi(c) ==
  LET cl == clients[c] IN
  /\ cl.pc = "list_api"
  /\ \/ \E pg \in ServerPages(cl.query) :
          /\ lru' = LruSet(lru, ListKeyOf(cl.query), pg, LIST_TTL, now)
          /\ clients' = [clients EXCEPT ![c] = [cl EXCEPT !.pc = "list_cache", !.ret = pg]]
     \/ \E resp \in FailedResponses :
          /\ clients' = [clients EXCEPT ![c] =
                           [cl EXCEPT !.pc = "list_off", !.ret = NoValue,
                                      !.remoteErr = HandleError(resp).category]]
          /\ UNCHANGED lru
  /\ UNCHANGED <<storeVars, mem, calls, remoteVars>>
  /\ UNCHANGED otherThanClient

\* getList: await setCache(cacheKey, result, LIST_TTL), then the loop over the
\* users of the page: cacheUser of the first, up to its await. A storage
\* error is caught and leads to getOfflineList.
ClientListCache(c) ==
  LET cl == clients[c] IN
  /\ cl.pc = "list_cache"
  /\ IF dbFaulty
     THEN /\ clients' = [clients EXCEPT ![c] = [cl EXCEPT !.pc = "list_off", !.ret = NoValue]]
          /\ UNCHANGED <<idb, mem, lru>>
     ELSE /\ idb' = IdbSet(idb, ListKeyOf(cl.query), cl.ret, LIST_TTL, now)
          /\ IF cl.ret.data = <<>>
             THEN /\ clients' = [clients EXCEPT ![c] =
                                   Finish([cl EXCEPT !.hit = "api"], "ok", cl.ret)]
                  /\ UNCHANGED <<mem, lru>>
             ELSE /\ CacheUserSync(cl.ret.data[1])
                  /\ clients' = [clients EXCEPT ![c] = [cl EXCEPT !.pc = "list_users",
                                                                  !.idx = 1]]
  /\ UNCHANGED <<ops, nextId, calls, remoteVars>>
  /\ UNCHANGED otherThanClient

\* getList: await setCache inside cacheUser(user); then the next user of the
\* page, or the page is returned.
ClientListUsers(c) ==
  LET cl == clients[c]
      user == cl.ret.data[cl.idx]
  IN
  /\ cl.pc = "list_users"
  /\ IF dbFaulty
     THEN /\ clients' = [clients EXCEPT ![c] = [cl EXCEPT !.pc = "list_off", !.ret = NoValue]]
          /\ UNCHANGED <<idb, mem, lru>>
     ELSE /\ idb' = IdbSet(idb, UserKey(user.id), user, LONG_TTL, now)
          /\ IF cl.idx = Len(cl.ret.data)
             THEN /\ clients' = [clients EXCEPT ![c] =
                                   Finish([cl EXCEPT !.hit = "api"], "ok", cl.ret)]
                  /\ UNCHANGED <<mem, lru>>
             ELSE /\ CacheUserSync(cl.ret.data[cl.idx + 1])
                  /\ clients' = [clients EXCEPT ![c].idx = cl.idx + 1]
  /\ UNCHANGED <<ops, nextId, calls, remoteVars>>
  /\ UNCHANGED otherThanClient

\* getOfflineList: await getCache('users:all'); the page is built from what it
\* returned, or from [] when it returned nothing.
ClientListOff(c) ==
  LET cl == clients[c]
      found == IdbGetValue(idb, AllUsersKey, now)
      allUsers == IF found = NoValue THEN <<>> ELSE found
  IN
  /\ cl.pc = "list_off"
  /\ IF dbFaulty
     THEN /\ clients' = [clients EXCEPT ![c] = Finish(cl, "storage", NoValue)]
          /\ UNCHANGED idb
     ELSE /\ idb' = IdbGet(idb, AllUsersKey, now)
          /\ clients' = [clients EXCEPT ![c] =
                           Finish([cl EXCEPT !.hit = "local"], "ok",
                                  OfflineList(allUsers, cl.query))]
  /\ UNCHANGED <<ops, nextId, cacheVars, calls, remoteVars>>
  /\ UNCHANGED otherThanClient

\* ------------------------------------------------------- specifications
ListSteps(c) ==
    \/ ClientStartList(c) \/ ClientListIdb(c) \/ ClientListApi(c) \/ ClientListCache(c)
    \/ ClientListUsers(c) \/ ClientListOff(c)

EngineSteps ==
  \E r \in 1..MaxRuns :
    \/ RunRead(r) \/ RunMark(r) \/ RunHandler(r) \/ RunDelete(r) \/ RunCatch(r) \/ RunCount(r)

DrainSteps ==
  \E d \in DOMAIN drains :
    \/ DrainRead(d) \/ DrainMark(d) \/ DrainApi(d) \/ DrainUncache(d) \/ DrainCache(d)
    \/ DrainDelete(d) \/ DrainCatch(d)

ClientSteps(c) ==
    \/ ClientStartById(c) \/ ClientStartCreate(c) \/ ClientGetIdb(c) \/ ClientGetApi(c)
    \/ ClientGetCache(c) \/ ClientGot(c) \/ ClientApi(c) \/ ClientCache(c)
    \/ ClientUncache(c) \/ ClientOffCache(c) \/ ClientOffEnq(c)

\* The Sync Engine with its triggers, the Durable Store working. Operations
\* of entity type `doc` are queued by their owner; the Repository's subscriber
\* reads the queue on every online transition and finds nothing of its own
\* entity type.
NextEngine ==
  \/ WindowEvent \/ DebounceFire({"engine", "repository"})
  \/ PeriodicTick \/ ForceSync \/ InitCount
  \/ RegisterHandler("doc")
  \/ EnqueueDoc
  \/ EngineSteps
  \/ (\E d \in 1..MaxDrains : DrainRead(d))

SpecEngine == Init /\ [][NextEngine]_vars

\* The same, with the scheduling the runtime guarantees: a timer that is due
\* fires, a pending promise of the Durable Store or of a handler settles.
\* Browser events and calls from the application are not forced.
EngineFairness ==
  /\ WF_vars(PeriodicTick)
  /\ WF_vars(DebounceFire({"engine", "repository"}))
  /\ WF_vars(InitCount)
  /\ \A r \in 1..MaxRuns :
       WF_vars(RunRead(r) \/ RunMark(r) \/ RunHandler(r) \/ RunDelete(r) \/ RunCatch(r)
                 \/ RunCount(r))
  /\ \A d \in 1..MaxDrains : WF_vars(DrainRead(d))

SpecLive == Init /\ [][NextEngine]_vars /\ EngineFairness

\* The Sync Engine started by hand or by its timer, over a Durable Store that
\* may reject any request.
NextFaults ==
  \/ DbFail \/ DbRecover
  \/ PeriodicTick \/ ForceSync \/ InitCount
  \/ RegisterHandler("doc")
  \/ EnqueueDoc
  \/ EngineSteps

SpecFaults == Init /\ [][NextFaults]_vars

\* The Sync Engine with all its public operations; every trigger is a call of
\* sync().
NextEngineOps ==
  \/ PeriodicTick \/ ForceSync \/ InitCount \/ ResetStats \/ ClearFailed
  \/ RegisterHandler("doc")
  \/ EnqueueDoc
  \/ EngineSteps

SpecEngineOps == Init /\ [][NextEngineOps]_vars

\* The Repository's calls, one at a time, while no replay is in progress:
\* navigator.onLine changes, the debounced status event is still to come.
NextWrite ==
  \/ DbFail \/ DbRecover \/ WindowEvent
  \/ ClientSteps(1)

SpecWrite == Init /\ [][NextWrite]_vars

\* The Repository as the application runs it, without the Sync Engine (no
\* module of the application imports offlineSyncService): calls of create and
\* the replay its subscriber starts on an online transition.
NextReplay ==
  \/ WindowEvent \/ DebounceFire({"repository"})
  \/ DrainSteps
  \/ ClientStartCreate(1) \/ ClientApi(1) \/ ClientCache(1) \/ ClientOffCache(1)
  \/ ClientOffEnq(1)

SpecReplay == Init /\ [][NextReplay]_vars

\* Reads after a restart: getById against what the earlier session left in
\* IndexedDB, the clock moving, the network and the Durable Store coming and
\* going.
NextRead ==
  \/ DbFail \/ DbRecover \/ WindowEvent \/ Tick
  \/ ClientStartGet(1) \/ ClientGetIdb(1) \/ ClientGetApi(1) \/ ClientGetCache(1)
  \/ ClientGot(1)

SpecRead == InitCached /\ [][NextRead]_vars

\* Calls of update running side by side, after a restart, the network coming
\* and going.
NextUpdates ==
  \/ WindowEvent
  \/ \E c \in 1..MaxClients :
       \/ ClientStartUpdate(c) \/ ClientGetIdb(c) \/ ClientGetApi(c) \/ ClientGetCache(c)
       \/ ClientGot(c) \/ ClientApi(c) \/ ClientCache(c) \/ ClientOffCache(c)
       \/ ClientOffEnq(c)

SpecUpdates == InitCached /\ [][NextUpdates]_vars

\* Lists and writes: getList and create, online and offline, the Durable Store
\* coming and going.
NextList ==
  \/ DbFail \/ DbRecover \/ WindowEvent
  \/ ListSteps(1)
  \/ ClientStartCreate(1) \/ ClientApi(1) \/ ClientCache(1) \/ ClientOffCache(1)
  \/ ClientOffEnq(1)

SpecList == Init /\ [][NextList]_vars

\* The Repository with every call of its interface and the replay its
\* subscriber starts on an online transition: edits made offline, of users
\* created online or offline, are replayed.
NextEdits ==
  \/ WindowEvent \/ DebounceFire({"repository"})
  \/ DrainSteps
  \/ ClientSteps(1)

SpecEdits == Init /\ [][NextEdits]_vars

\* A restart with stored operations of entity type `user`, replayed both by the
\* Repository and, a handler for `user` being registered, by the Sync Engine.
\* The stored operations being updates, the replay never enters syncCreate.
UpdateDrainSteps ==
  \E d \in DOMAIN drains :
    \/ DrainRead(d) \/ DrainMark(d) \/ DrainApi(d) \/ DrainCache(d)
    \/ DrainDelete(d) \/ DrainCatch(d)

NextDrains ==
  \/ WindowEvent \/ DebounceFire({"engine", "repository"})
  \/ ManualSync
  \/ RegisterHandler("user")
  \/ EngineSteps
  \/ UpdateDrainSteps

SpecDrains == InitStored /\ [][NextDrains]_vars

\* ----------------------------------------------------------------- claims
\* The part of sync() between `status = SYNCING` and the write of SUCCESS or
\* FAILED: the run reads, marks, dispatches, deletes or handles a failure.
Draining == {"read", "mark", "handler", "delete", "catch"}

SnapIds(run) == {run.snap[i].id : i \in 1..Len(run.snap)}

\* C4: given N pending mutations of one entity type whose handler is
\* registered and always succeeds, the network online and no other drain
\* running, one Sync Engine drain removes all N entries from the queue,
\* increases the synced counter by exactly N and ends with status success.
C4_Step ==
  \A r \in 1..MaxRuns :
    (runs[r].pc \in Draining /\ runs'[r].pc = "count" /\ runs'[r].clean /\ runs'[r].handled)
      => /\ status' = "success"
         /\ syncedCount' = runs'[r].base + Len(runs'[r].snap)
         /\ SnapIds(runs'[r]) \cap DOMAIN ops' = {}

C4_DrainRemovesAll == [][C4_Step]_vars

C4_Witness ==
  \E r \in 1..MaxRuns :
    /\ runs[r].pc = "count" /\ runs[r].clean /\ runs[r].handled
    /\ Len(runs[r].snap) = 2
    /\ syncedCount = runs[r].base + 2
    /\ status = "success"

Stored(id) == id \in DOMAIN ops

HasStatus(q, id, st) == id \in DOMAIN q /\ q[id].status = st

\* C5: with a handler that always fails, a mutation with maxAttempts = M is
\* pending with attempts = d after d < M drains, becomes failed on the M-th
\* drain with the failed counter incremented once for it, stays stored
\* afterwards and is never dispatched by a later drain. A stored mutation is
\* one every dispatch of which has failed (a success deletes it).
C5_Inv ==
  /\ \A id \in DOMAIN ops :
       LET op == ops[id] IN
       /\ op.status = "pending" => op.retries < op.maxRetries /\ dispatched[id] = op.retries
       /\ op.status = "processing" =>
            op.retries < op.maxRetries /\ dispatched[id] = op.retries + 1
       /\ op.status = "failed" =>
            op.retries = op.maxRetries /\ dispatched[id] = op.maxRetries
  /\ failedCount = Cardinality({id \in DOMAIN ops : ops[id].status = "failed"})

C5_Step ==
  \A id \in DOMAIN ops :
    HasStatus(ops, id, "failed") =>
      HasStatus(ops', id, "failed") /\ dispatched'[id] = dispatched[id]

C5_FailsAfterMaxAttempts == []C5_Inv /\ [][C5_Step]_vars

\* A mutation with maxAttempts = 2 has failed after two dispatches, and a run
\* that started later has finished without touching it.
C5_Witness ==
  \E id \in DOMAIN ops :
    /\ ops[id].status = "failed" /\ ops[id].maxRetries = 2 /\ dispatched[id] = 2
    /\ failedCount = 1
    /\ \E r \in 1..MaxRuns : runs[r].pc = "count" /\ runs[r].snap = <<>>

\* C7: at most one Sync Engine drain is in progress at any time, whatever the
\* interleaving of sync(), forceSync(), the periodic tick, resetStats() and
\* clearFailed().
C7_AtMostOneDrain ==
  Cardinality({r \in 1..MaxRuns : runs[r].pc \in Draining}) <= 1

\* C9: while the network stays online, a mutation that is pending and whose
\* entity type has a handler is eventually dispatched (it leaves `pending`),
\* however and whenever it was enqueued.
C9_PendingEventuallyDispatched ==
  \A id \in 1..MaxOps :
    (online /\ HasStatus(ops, id, "pending") /\ ops[id].entity \in handlers)
      ~> (~online \/ ~HasStatus(ops, id, "pending"))

\* C10: every Sync Engine run that sets status to syncing later sets it to
\* success or failed, also when a storage request inside the run is rejected:
\* status is syncing only while a run is between the two writes, such a run
\* can always take its next step, and the step that takes it out writes
\* success or failed.
C10_Inv ==
  /\ status = "syncing" => \E r \in 1..MaxRuns : runs[r].pc \in Draining
  /\ \A r \in 1..MaxRuns :
       runs[r].pc \in Draining =>
         ENABLED (RunRead(r) \/ RunMark(r) \/ RunHandler(r) \/ RunDelete(r) \/ RunCatch(r))

C10_Step ==
  \A r \in 1..MaxRuns :
    (runs[r].pc \in Draining /\ runs'[r].pc \notin Draining)
      => status' \in {"success", "failed"}

C10_SyncingAlwaysEnds == []C10_Inv /\ [][C10_Step]_vars

\* A run ended in `failed` because the Durable Store rejected a request.
C10_Witness ==
  \E r \in 1..MaxRuns :
    runs[r].pc = "count" /\ ~runs[r].clean /\ status = "failed" /\ runs[r].snap # <<>>

\* ------------------------------------------------ claims on the Repository
Writes == {"create", "update", "delete"}

\* The call in slot c has returned or thrown.
Returned(c) == clients[c].pc = "done" /\ clients[c].kind \in Writes

\* The call sent its POST, PUT or DELETE (for update and delete: getById had
\* found the user).
SentItsRequest(cl) == cl.sawOnline /\ (cl.kind = "create" \/ cl.existing # NoValue)

\* The pending operation the call must have queued: its kind, the entity it is
\* about, the payload of the request, not yet attempted.
QueuedFor(cl, q) ==
  \E id \in DOMAIN q :
    /\ q[id].type = cl.kind /\ q[id].entity = "user" /\ q[id].entityId = cl.user.id
    /\ q[id].payload = (IF cl.kind = "delete" THEN "none" ELSE cl.dto)
    /\ q[id].status = "pending" /\ q[id].retries = 0

\* Every cache layer (m, l, d: memory, LRU, IndexedDB) holds `user` under its
\* key.
LayersHold(m, l, d, user) ==
  /\ MemGetValue(m, UserKey(user.id)) = user
  /\ LruGetValue(l, UserKey(user.id), now) = user
  /\ IdbGetValue(d, UserKey(user.id), now) = user

AllLayersHold(user) == LayersHold(mem, lru, idb, user)

\* No cache layer holds anything under the key of `id`.
LayersLack(m, l, d, id) ==
  /\ ~MemHas(m, UserKey(id))
  /\ ~LruHasKey(l, UserKey(id))
  /\ UserKey(id) \notin DOMAIN d

NoLayerHolds(id) == LayersLack(mem, lru, idb, id)

AppliedLocally(cl) ==
  IF cl.kind = "delete" THEN NoLayerHolds(cl.id) ELSE AllLayersHold(cl.user)

\* C1: an online create, update or delete whose request fails with a
\* Network-category error from Remote Transport applies the change to the
\* cache layers, queues exactly one pending operation with the request's
\* payload and returns to the caller instead of throwing.
C1_NetworkErrorFallsBack ==
  \A c \in 1..MaxClients :
    (Returned(c) /\ SentItsRequest(clients[c]) /\ clients[c].remoteErr = "NETWORK")
      => /\ clients[c].result = "ok"
         /\ clients[c].enq = 1
         /\ QueuedFor(clients[c], ops)
         /\ AppliedLocally(clients[c])

C3_Created(c) ==
  LET cl == clients'[c] IN
  (clients[c].pc = "off_enq" /\ cl.pc = "done" /\ cl.result = "ok" /\ cl.kind = "create"
     /\ ~cl.sawOnline)
    => /\ IsOfflineUser(cl.ret)
       /\ cl.enq = 1
       /\ DOMAIN ops' = DOMAIN ops \cup {nextId}
       /\ ops'[nextId].type = "create" /\ ops'[nextId].entityId = cl.ret.id
       /\ ops'[nextId].payload = cl.dto

C3_Replayed(d) ==
  LET dr == drains[d]
      op == dr.snap[dr.idx]
  IN
  (dr.pc = "done" /\ op.type = "create" /\ Stored(op.id) /\ op.id \notin DOMAIN ops'
     /\ nextId = 2 /\ dispatched[op.id] = 1)
    => /\ DOMAIN ops' = {}
       /\ IsOfflineUser(User(op.entityId, op.payload))
       /\ ~IsOfflineUser(dr.user)
       /\ dr.user.data = op.payload
       /\ LayersLack(mem', lru', idb', op.entityId)
       /\ LayersHold(mem', lru', idb', dr.user)

C3_OfflineCreateReplayed ==
  [][(\A c \in 1..MaxClients : C3_Created(c)) /\ (\A d \in 1..MaxDrains : C3_Replayed(d))]_vars

\* The one create made offline has been replayed: the queue is empty again and
\* the service's entity is cached.
C3_Witness ==
  /\ nextId = 2 /\ DOMAIN ops = {} /\ dispatched[1] = 1
  /\ \E c \in 1..MaxClients :
       /\ clients[c].pc = "done" /\ clients[c].kind = "create" /\ ~clients[c].sawOnline
       /\ clients[c].result = "ok"
       /\ NoLayerHolds(clients[c].ret.id)
  /\ AllLayersHold(User(ServerId(1), "a"))
  /\ \A d \in 1..MaxDrains : drains[d].pc = "idle"

\* C6: a pending operation whose status is failed never changes status again
\* and is never dispatched to a handler or to Remote Transport again, whatever
\* the interleaving of the Sync Engine's runs and the Repository's replays.
C6_Step ==
  \A id \in 1..MaxOps :
    (Stored(id) /\ ops[id].status = "failed")
      => /\ id \in DOMAIN ops' => ops'[id].status = "failed"
         /\ dispatched'[id] = dispatched[id]

C6_FailedIsTerminal == [][C6_Step]_vars

\* C8: within a drain, pending operations are dispatched oldest first, two
\* operations of the same creation time in the order they were queued; for the
\* Sync Engine's run and for the Repository's replay.
OldestFirst(snap) ==
  \A i \in 1..Len(snap) : \A j \in 1..Len(snap) :
    i < j => snap[i].timestamp <= snap[j].timestamp /\ snap[i].id < snap[j].id

C11_Step ==
  \A d \in 1..MaxDrains :
    LET op == drains[d].snap[drains[d].idx] IN
    (drains[d].pc = "mark" /\ drains'[d].pc = "api" /\ op.type \in {"update", "delete"}
       /\ ~\E i \in DOMAIN ops : ops[i].type = "create" /\ ops[i].entityId = op.entityId)
      => /\ Request(MethodOf(op.type), op.entityId) \in sent'
         /\ ~IsOfflineUser(User(op.entityId, op.payload))

C11_ReplayUsesServerId == [][C11_Step]_vars

\* C12: every stored pending operation with status failed has
\* retries >= maxRetries, whichever drain marked it failed.
C12_FailedHasAllAttempts ==
  \A id \in DOMAIN ops :
    ops[id].status = "failed" => ops[id].retries >= ops[id].maxRetries

\* C13: getById probes memory, LRU, IndexedDB and Remote Transport in that
\* order and stops at the first hit: when it returns a user, the layers it
\* consulted are exactly those up to the one that had the user, and every
\* faster layer holds that user under the same key on return.
Layers == <<"mem", "lru", "idb", "api">>

LayerNo(layer) == CHOOSE i \in 1..Len(Layers) : Layers[i] = layer

C13_Step ==
  \A c \in 1..MaxClients :
    LET cl == clients'[c]
        key == UserKey(cl.id)
    IN
    (clients[c].pc # "got" /\ cl.pc = "got" /\ cl.existing # NoValue)
      => /\ cl.hit \in {Layers[i] : i \in 1..Len(Layers)}
         /\ cl.probed = SubSeq(Layers, 1, LayerNo(cl.hit))
         /\ cl.existing.id = cl.id
         /\ LayerNo(cl.hit) > 1 => MemGetValue(mem', key) = cl.existing
         /\ LayerNo(cl.hit) > 2 => LruGetValue(lru', key, now') = cl.existing
         /\ LayerNo(cl.hit) > 3 => IdbGetValue(idb', key, now') = cl.existing

ServiceGetById(cl) ==
  CASE cl.result = "ok" -> [success |-> TRUE, data |-> cl.ret, error |-> NoMessage]
    [] cl.result = "null" ->
         [success |-> FALSE, data |-> NoValue, error |-> <<"User", "not", "found">>]
    [] OTHER -> [success |-> FALSE, data |-> NoValue, error |-> <<cl.result>>]

\* C14: when the network is online and all three cache layers miss, a failing
\* Remote Transport call makes getById surface a categorized error: the call
\* ends with the error of the failed request, and the application is told
\* more than `User not found`.
C14_RemoteFailureSurfaced ==
  \A c \in 1..MaxClients :
    LET cl == clients[c] IN
    (cl.pc = "done" /\ cl.kind = "getById" /\ cl.remoteErr # "none")
      => /\ cl.result = "remote"
         /\ ServiceGetById(cl).error # <<"User", "not", "found">>

\* C15: an online create, update or delete whose request fails with a
\* Validation, Conflict, Authorization or NotFound error, whatever the text of
\* its message, throws that error to the caller, queues no pending operation
\* and writes nothing to the cache layers (for create: no locally made user),
\* the Durable Store taking every request.
RequestErrors == {"VALIDATION", "CONFLICT", "AUTHORIZATION", "NOT_FOUND"}

C15_RequestErrorIsThrown ==
  \A c \in 1..MaxClients :
    LET cl == clients[c] IN
    (Returned(c) /\ SentItsRequest(cl) /\ cl.remoteErr \in RequestErrors
       /\ cl.result # "storage")
      => /\ cl.result = "remote"
         /\ cl.enq = 0
         /\ cl.kind = "create" => NoLayerHolds(cl.id)

\* No cache layer answers a read of the key of `id` with a user.
NoLayerAnswers(id) ==
  /\ MemGetValue(mem, UserKey(id)) = NoValue
  /\ LruGetValue(lru, UserKey(id), now) = NoValue
  /\ IdbGetValue(idb, UserKey(id), now) = NoValue

\* C16: update(id, ...) and delete(id) on an id that getById cannot resolve
\* fail with a not-found error; no pending operation is queued and no cache
\* entry has been written for the id.
C16_NotFoundBeforeAnyWrite ==
  \A c \in 1..MaxClients :
    LET cl == clients[c] IN
    (cl.pc = "done" /\ cl.kind \in {"update", "delete"} /\ cl.existing = NoValue
       /\ cl.result # "storage")
      => /\ cl.result = "notFound"
         /\ cl.enq = 0
         /\ NoLayerAnswers(cl.id)

\* C17: after an online create, update or delete has succeeded, no list page
\* cached before it is left in a layer getList reads: on the write's return
\* neither the LRU cache nor IndexedDB answers any list key.
C17_Step ==
  \A c \in 1..MaxClients :
    (clients[c].pc \in {"cache", "uncache"} /\ clients'[c].pc = "done"
       /\ clients'[c].result = "ok")
      => \A q \in Queries :
           /\ LruGetValue(lru', ListKeyOf(q), now') = NoValue
           /\ IdbGetValue(idb', ListKeyOf(q), now') = NoValue

C17_WriteDropsListPages == [][C17_Step]_vars

\* The users the cache holds: every live `user:<id>` record of IndexedDB (what
\* cacheUser writes reaches all three layers, IndexedDB keeping it longest).
CachedUsers ==
  {idb[k].value : k \in {x \in DOMAIN idb : x[1] = "user:" /\ IdbLive(idb, x, now)}}

\* C18: when getList falls back to the local page, the page is built from the
\* full set of users currently cached: total is the number of cached users that
\* match the search term, totalPages = ceil(total / pageSize), and data is the
\* slice [(page-1)*pageSize, (page-1)*pageSize + pageSize) of the matches.
C18_LocalPageFromCachedUsers ==
  \A c \in 1..MaxClients :
    LET cl == clients[c]
        matching == {u \in CachedUsers : UserMatches(u, cl.query[3])}
        n == Cardinality(matching)
        start == (cl.query[1] - 1) * cl.query[2]
    IN
    (cl.pc = "done" /\ cl.kind = "getList" /\ cl.hit = "local" /\ cl.result = "ok")
      => /\ cl.ret.total = n
         /\ cl.ret.totalPages = Ceil(n, cl.query[2])
         /\ Len(cl.ret.data) = (IF n > start THEN Min(cl.query[2], n - start) ELSE 0)
         /\ \A i \in 1..Len(cl.ret.data) : cl.ret.data[i] \in matching

\* C19: when two update calls for the same id run concurrently and both
\* requests succeed, then once both calls have returned, the memory cache, the
\* LRU cache and IndexedDB all hold the entity returned by the round-trip that
\* completed last. (No third call has been made.)
C19_LastRoundTripWins ==
  \A c1 \in 1..MaxClients : \A c2 \in 1..MaxClients :
    LET a == clients[c1]
        b == clients[c2]
    IN
    (/\ c1 # c2 /\ calls = 2
     /\ a.pc = "done" /\ a.kind = "update" /\ a.result = "ok" /\ a.rt > 0
     /\ b.pc = "done" /\ b.kind = "update" /\ b.result = "ok" /\ b.rt > a.rt
     /\ a.id = b.id)
      => AllLayersHold(b.ret)

\* Two updates of one user with different data have both returned, the second
\* response having arrived while the first call's cache write was under way.
C19_Witness ==
  \E c1 \in 1..MaxClients : \E c2 \in 1..MaxClients :
    LET a == clients[c1]
        b == clients[c2]
    IN
    /\ c1 # c2 /\ calls = 2
    /\ a.pc = "done" /\ a.kind = "update" /\ a.result = "ok" /\ a.rt > 0
    /\ b.pc = "done" /\ b.kind = "update" /\ b.result = "ok" /\ b.rt > a.rt
    /\ a.id = b.id /\ b.raced /\ a.ret.data # b.ret.data
    /\ AllLayersHold(b.ret)

\* C20: while the Network Status Monitor reports offline and nothing has been
\* replayed, a create sends nothing to Remote Transport and returns the entity
\* made locally; a getById of the returned id that begins next finds that
\* entity in Layer 1 in its first step, returns it, and sends nothing either.
C20_Step ==
  \A c \in 1..MaxClients :
    LET a == clients[c]
        b == clients'[c]
    IN
    /\ (b # a /\ b.kind = "create" /\ ~b.sawOnline) => sent' = sent
    /\ (/\ a.pc = "done" /\ a.kind = "create" /\ a.result = "ok" /\ ~a.sawOnline
        /\ ~online /\ sent = {}
        /\ calls' = calls + 1 /\ b.kind = "getById" /\ b.id = a.ret.id)
         => /\ IsOfflineUser(a.ret)
            /\ b.pc = "got" /\ b.hit = "mem" /\ b.existing = a.ret
            /\ sent' = sent
    /\ (a.pc = "got" /\ a.kind = "getById" /\ a.hit = "mem" /\ b # a)
         => /\ b.pc = "done" /\ b.result = "ok" /\ b.ret = a.existing
            /\ sent' = sent

C20_OfflineWriteThenRead == [][C20_Step]_vars

C20_Witness ==
  \E c \in 1..MaxClients :
    /\ clients[c].pc = "done" /\ clients[c].kind = "getById" /\ clients[c].result = "ok"
    /\ clients[c].hit = "mem"
    /\ IsOfflineUser(clients[c].ret)
    /\ clients[c].id = OfflineId(calls - 1)
    /\ ~online /\ sent = {}

\* C21: a getById whose key is in none of memory, LRU and IndexedDB, and that
\* finds the Network Status Monitor offline, sends nothing to Remote Transport
\* and returns null instead of throwing.
C21_Step ==
  \A c \in 1..MaxClients :
    LET a == clients[c]
        b == clients'[c]
    IN
    /\ (/\ a.kind = "getById" /\ a.pc = "get_idb" /\ b # a
        /\ ~dbFaulty /\ IdbGetValue(idb, UserKey(a.id), now) = NoValue /\ ~online)
         => /\ b.pc = "got" /\ b.existing = NoValue /\ b.hit = "none"
            /\ b.probed = <<"mem", "lru", "idb">>
            /\ sent' = sent
    /\ (/\ a.kind = "getById" /\ a.pc = "got" /\ b # a
        /\ a.hit = "none" /\ a.sawOffline /\ ~a.sawOnline)
         => /\ b.pc = "done" /\ b.result = "null" /\ b.ret = NoValue
            /\ sent' = sent

C21_OfflineMissIsNull == [][C21_Step]_vars

C21_Witness ==
  \E c \in 1..MaxClients :
    /\ clients[c].kind = "getById" /\ clients[c].pc = "done"
    /\ clients[c].probed = <<"mem", "lru", "idb">> /\ clients[c].hit = "none"
    /\ clients[c].sawOffline /\ ~clients[c].sawOnline
    /\ clients[c].result = "null"
    /\ Request("GET", clients[c].id) \notin sent

\* ------------------------------------------- the cache classes on their own
\* A MemoryCacheService or LRUCacheService instance of small capacity (the
\* classes are exported for custom instances), or the IndexedDB cache table,
\* driven by arbitrary calls.
MaxCap == 3
MaxProbes == 4

ProbeKeys == {EmptyKey, UserKey(ServerId(1)), UserListKey(1, 1, <<>>)}
ProbeValues == {User(ServerId(1), d) : d \in Datas}
ProbePrefixes == {<<>>, ListPrefix}

InitCaches ==
  /\ InitButLayers
  /\ online
  /\ ops = <<>>
  /\ nextId = 1
  /\ idb = <<>>
  /\ \E layer \in {"mem", "lru", "idb"}, cap \in 1..MaxCap :
       /\ layer = "idb" => cap = 1
       /\ mem = IF layer = "mem" THEN MemNew(cap) ELSE MemEmpty
       /\ lru = IF layer = "lru" THEN LruNew(cap, DEFAULT_TTL) ELSE LruEmpty
       /\ probe = [NoProbe EXCEPT !.layer = layer]
  /\ boot = BootStart
  /\ http = HttpStart

\* The keys a layer stores.
KeysOf(layer, m, c, d) ==
  CASE layer = "mem" -> DOMAIN m.entries
    [] layer = "lru" -> DOMAIN c.nodes
    [] OTHER -> DOMAIN d

\* The keys of the LRU cache seen with the clock past their expiresAt.
SeenExpired == {k \in DOMAIN lru.nodes : now > lru.nodes[k].expiresAt}

\* The record of a call: `removed` are the keys the caller asked to remove,
\* accessed tells whether the call counts as an access of k, and m, c, d are
\* the layers after the call.
Logged(op, k, v, ttl, ret, ok, num, removed, accessed, m, c, d) ==
  LET before == KeysOf(probe.layer, mem, lru, idb)
      after == KeysOf(probe.layer, m, c, d)
      evicted == IF op = "set" THEN (before \ after) \ {k} ELSE {}
      gone == removed \cup evicted \cup (IF op = "touch" /\ ok THEN {k} ELSE {})
      w1 == [x \in DOMAIN probe.written |->
               IF x \in gone THEN [probe.written[x] EXCEPT !.intact = FALSE]
               ELSE probe.written[x]]
      moved == IF accessed THEN <<k>> \o SeqWithout(probe.order, k) ELSE probe.order
      dead1 == IF probe.layer = "lru" THEN probe.dead \cup SeenExpired ELSE probe.dead
  IN [probe EXCEPT !.n = @ + 1, !.op = op, !.key = k,
                   !.twice = (op = "clear" /\ probe.op = "clear"),
                   !.mid = /\ probe.layer = "lru" /\ LruHasKey(lru, k)
                           /\ lru.nodes[k].prev # NoKey /\ lru.nodes[k].next # NoKey,
                   !.value = v, !.ttl = ttl,
                   !.ret = ret, !.ok = ok, !.num = num, !.at = now,
                   !.order = SelectSeq(moved, LAMBDA x : x \in after),
                   !.written = IF op = "set"
                               THEN Put(w1, k, [value |-> v, at |-> now, ttl |-> ttl,
                                                intact |-> TRUE])
                               ELSE w1,
                   !.dead = IF op = "set" THEN dead1 \ {k} ELSE dead1,
                   !.fresh = IF op = "get" /\ probe.op = "set" /\ probe.key = k
                                /\ probe.at = now
                             THEN [set |-> TRUE, value |-> probe.value, ttl |-> probe.ttl]
                             ELSE NoProbe.fresh]

otherThanLayers ==
  <<netVars, now, boot, http, dbFaulty, ops, nextId, engineVars, repoVars, remoteVars>>

\* What a call leaves alone besides the layer it is made on.
Probing(layer) ==
  /\ probe.layer = layer
  /\ probe.n < MaxProbes
  /\ UNCHANGED otherThanLayers

\* --- MemoryCacheService
MemSetCall ==
  /\ Probing("mem")
  /\ \E k \in ProbeKeys, v \in ProbeValues :
       /\ mem' = MemSet(mem, k, v, now)
       /\ probe' = Logged("set", k, v, 0, NoValue, TRUE, 0, {}, TRUE, mem', lru, idb)
  /\ UNCHANGED <<lru, idb>>

MemGetCall ==
  /\ Probing("mem")
  /\ \E k \in ProbeKeys :
       /\ mem' = MemGet(mem, k, now)
       /\ probe' = Logged("get", k, NoValue, 0, MemGetValue(mem, k), MemHas(mem, k), 0,
                          {}, MemHas(mem, k), mem', lru, idb)
  /\ UNCHANGED <<lru, idb>>

MemDeleteCall ==
  /\ Probing("mem")
  /\ \E k \in ProbeKeys :
       /\ mem' = MemDelete(mem, k)
       /\ probe' = Logged("delete", k, NoValue, 0, NoValue, MemHas(mem, k), 0,
                          {k}, FALSE, mem', lru, idb)
  /\ UNCHANGED <<lru, idb>>

MemClearCall ==
  /\ Probing("mem")
  /\ \E prefix \in ProbePrefixes, all \in BOOLEAN :
       /\ all => prefix = <<>>
       /\ mem' = IF all THEN MemClear(mem) ELSE MemClearByPrefix(mem, prefix)
       /\ probe' = Logged(IF all THEN "clear" ELSE "clearByPrefix", NoKey, NoValue, 0,
                          NoValue, TRUE, 0, {k \in ProbeKeys : StartsWith(k, prefix)},
                          FALSE, mem', lru, idb)
  /\ UNCHANGED <<lru, idb>>

\* --- LRUCacheService
LruSetCall ==
  /\ Probing("lru")
  /\ \E k \in ProbeKeys, v \in ProbeValues, ttl \in {0, lru.defaultTTL} :
       /\ lru' = LruSet(lru, k, v, ttl, now)
       /\ probe' = Logged("set", k, v, ttl, NoValue, TRUE, 0, {}, TRUE, mem, lru', idb)
  /\ UNCHANGED <<mem, idb>>

LruGetCall ==
  /\ Probing("lru")
  /\ \E k \in ProbeKeys :
       /\ lru' = LruGet(lru, k, now)
       /\ probe' = Logged("get", k, NoValue, 0, LruGetValue(lru, k, now), LruLive(lru, k, now),
                          0, {}, LruLive(lru, k, now), mem, lru', idb)
  /\ UNCHANGED <<mem, idb>>

LruHasCall ==
  /\ Probing("lru")
  /\ \E k \in ProbeKeys :
       /\ lru' = LruHas(lru, k, now)
       /\ probe' = Logged("has", k, NoValue, 0, NoValue, LruLive(lru, k, now), 0,
                          {}, FALSE, mem, lru', idb)
  /\ UNCHANGED <<mem, idb>>

LruDeleteCall ==
  /\ Probing("lru")
  /\ \E k \in ProbeKeys :
       /\ lru' = LruDelete(lru, k)
       /\ probe' = Logged("delete", k, NoValue, 0, NoValue, LruHasKey(lru, k), 0,
                          {k}, FALSE, mem, lru', idb)
  /\ UNCHANGED <<mem, idb>>

LruClearCall ==
  /\ Probing("lru")
  /\ \E prefix \in ProbePrefixes, all \in BOOLEAN :
       /\ all => prefix = <<>>
       /\ lru' = IF all THEN LruClear(lru) ELSE LruClearByPrefix(lru, prefix)
       /\ probe' = Logged(IF all THEN "clear" ELSE "clearByPrefix", NoKey, NoValue, 0,
                          NoValue, TRUE, 0, {k \in ProbeKeys : StartsWith(k, prefix)},
                          FALSE, mem, lru', idb)
  /\ UNCHANGED <<mem, idb>>

LruGetTTLCall ==
  /\ Probing("lru")
  /\ \E k \in ProbeKeys :
       probe' = Logged("getTTL", k, NoValue, 0, NoValue, LruGetTTL(lru, k, now) > 0,
                       LruGetTTL(lru, k, now), {}, FALSE, mem, lru, idb)
  /\ UNCHANGED <<mem, lru, idb>>

LruTouchCall ==
  /\ Probing("lru")
  /\ \E k \in ProbeKeys, ttl \in {0, lru.defaultTTL} :
       /\ lru' = LruTouch(lru, k, ttl, now)
       /\ probe' = Logged("touch", k, NoValue, ttl, NoValue, LruHasKey(lru, k), 0,
                          {}, LruHasKey(lru, k), mem, lru', idb)
  /\ UNCHANGED <<mem, idb>>

\* The sweep the constructor schedules with setInterval.
LruSweep ==
  /\ Probing("lru")
  /\ lru' = LruCleanupExpired(lru, now)
  /\ probe' = Logged("sweep", NoKey, NoValue, 0, NoValue, TRUE, 0, {}, FALSE, mem, lru', idb)
  /\ UNCHANGED <<mem, idb>>

\* --- IndexedDbService, cache table
IdbSetCall ==
  /\ Probing("idb")
  /\ \E k \in ProbeKeys, v \in ProbeValues, ttl \in {0, DEFAULT_TTL} :
       /\ idb' = IdbSet(idb, k, v, ttl, now)
       /\ probe' = Logged("set", k, v, ttl, NoValue, TRUE, 0, {}, TRUE, mem, lru, idb')
  /\ UNCHANGED <<mem, lru>>

IdbGetCall ==
  /\ Probing("idb")
  /\ \E k \in ProbeKeys :
       /\ idb' = IdbGet(idb, k, now)
       /\ probe' = Logged("get", k, NoValue, 0, IdbGetValue(idb, k, now), IdbLive(idb, k, now),
                          0, {}, FALSE, mem, lru, idb')
  /\ UNCHANGED <<mem, lru>>

IdbDeleteCall ==
  /\ Probing("idb")
  /\ \E k \in ProbeKeys :
       /\ idb' = IdbDelete(idb, k)
       /\ probe' = Logged("delete", k, NoValue, 0, NoValue, TRUE, 0, {k}, FALSE,
                          mem, lru, idb')
  /\ UNCHANGED <<mem, lru>>

IdbSweep ==
  /\ Probing("idb")
  /\ idb' = IdbCleanupExpired(idb, now)
  /\ probe' = Logged("sweep", NoKey, NoValue, 0, NoValue, TRUE, 0, {}, FALSE, mem, lru, idb')
  /\ UNCHANGED <<mem, lru>>

NextCaches ==
  \/ Tick
  \/ MemSetCall \/ MemGetCall \/ MemDeleteCall \/ MemClearCall
  \/ LruSetCall \/ LruGetCall \/ LruHasCall \/ LruDeleteCall \/ LruClearCall
  \/ LruGetTTLCall \/ LruTouchCall \/ LruSweep
  \/ IdbSetCall \/ IdbGetCall \/ IdbDeleteCall \/ IdbSweep

SpecCaches == InitCaches /\ [][NextCaches]_vars

\* C22: an LRUCacheService of capacity maxSize never stores more than maxSize
\* entries, whatever set, get, has, delete, touch, clearByPrefix, clear and
\* sweep calls have been made.
C22_SizeWithinCapacity == Cardinality(DOMAIN lru.nodes) <= lru.maxSize

C22_Witness ==
  /\ probe.layer = "lru" /\ probe.op = "set"
  /\ lru.evictions > 0
  /\ Cardinality(DOMAIN lru.nodes) = lru.maxSize

\* C23: a set of a new key into a full LRUCacheService removes exactly one
\* key, the one whose latest access (set, successful get or touch) is the
\* oldest among the keys stored.
C23_Step ==
  (/\ probe.layer = "lru" /\ probe'.n = probe.n + 1 /\ probe'.op = "set"
   /\ probe'.key \notin DOMAIN lru.nodes
   /\ Cardinality(DOMAIN lru.nodes) >= lru.maxSize)
    => /\ Len(probe.order) = Cardinality(DOMAIN lru.nodes)
       /\ (DOMAIN lru.nodes) \ (DOMAIN lru'.nodes) = {probe.order[Len(probe.order)]}
       /\ (DOMAIN lru'.nodes) \ (DOMAIN lru.nodes) = {probe'.key}

C23_EvictsOldestAccess == [][C23_Step]_vars

\* Two keys stored, the older one read, a third key set: the newer of the two
\* first keys is the one evicted.
C23_Witness ==
  /\ probe.layer = "lru" /\ probe.op = "set" /\ probe.n = 4
  /\ lru.maxSize = 2 /\ lru.evictions = 1 /\ lru.hits = 1
  /\ \E k \in DOMAIN probe.written :
       /\ k \notin DOMAIN lru.nodes
       /\ probe.order[Len(probe.order)] # k
       /\ Len(probe.order) = 2

\* C24: in the LRU cache and the IndexedDB cache table, a get of a key that was
\* set and has been left alone since (no set, touch, delete, clear or
\* eviction of it) returns the value set while Date.now() - (time of the set)
\* <= ttl, and null once it is > ttl.
C24_Step ==
  LET k == probe'.key
      w == probe.written[k]
  IN (/\ probe.layer \in {"lru", "idb"} /\ probe'.n = probe.n + 1 /\ probe'.op = "get"
      /\ k \in DOMAIN probe.written /\ w.intact)
       => probe'.ret = IF now - w.at <= w.ttl THEN w.value ELSE NoValue

C24_ReadableUntilTtl == [][C24_Step]_vars

C24_Witness ==
  /\ probe.layer = "idb" /\ probe.op = "get" /\ probe.ret = NoValue
  /\ probe.key \in DOMAIN probe.written
  /\ probe.written[probe.key].intact
  /\ probe.at - probe.written[probe.key].at > probe.written[probe.key].ttl

\* C25: in the LRU cache, once the clock has been seen past an entry's
\* expiresAt, no get of its key returns a value until the key is set again.
C25_Step ==
  (/\ probe.layer = "lru" /\ probe'.n = probe.n + 1 /\ probe'.op = "get"
   /\ probe'.key \in probe'.dead)
    => probe'.ret = NoValue

C25_ExpiredStaysUnreadable == [][C25_Step]_vars

\* C26: a get of k made right after set(k, v), with the layer's default ttl,
\* returns v, in each of the three layers, whatever the layer held before.
C26_SetThenGet ==
  (probe.fresh.set /\ (probe.layer = "mem" \/ probe.fresh.ttl > 0))
    => probe.ret = probe.fresh.value

C26_Witness ==
  /\ probe.layer = "mem" /\ probe.fresh.set
  /\ probe.ret \in ProbeValues
  /\ Cardinality(DOMAIN mem.entries) >= mem.maxSize

\* C27: a MemoryCacheService of capacity maxSize never stores more than
\* maxSize entries, the empty string being one of the keys set.
C27_SizeWithinMaxSize == Cardinality(DOMAIN mem.entries) <= mem.maxSize

\* ------------------------------------------ IndexedDbService: the opening
otherThanBoot ==
  <<netVars, now, probe, http, dbFaulty, storeVars, cacheVars, engineVars, repoVars, remoteVars>>

\* An accessor is called: ensureReady runs up to its await.
AccessorCall(a) ==
  LET acc == boot.accessors[a]
      on == EnsureReady(boot)
      b1 == IF boot.initialized THEN boot ELSE InitCall(boot)
  IN
  /\ acc.pc = "idle"
  /\ boot' = [b1 EXCEPT !.accessors[a] =
                [acc EXCEPT !.pc = IF on = "ready" THEN "ready" ELSE "waiting",
                            !.waited = on # "ready",
                            !.late = boot.initPromise = "rejected"]]
  /\ UNCHANGED otherThanBoot

\* The application calls the public init() itself.
InitCalled ==
  /\ boot.inits <= MaxAccessors
  /\ boot' = InitCall(boot)
  /\ UNCHANGED otherThanBoot

\* db.open() settles: the database is open, or the opening has failed.
OpenSettles ==
  /\ boot.db = "opening"
  /\ \/ boot' = [boot EXCEPT !.db = "open", !.settled = TRUE]
     \/ \E e \in OpenErrors : boot' = [boot EXCEPT !.db = "failed", !.settled = TRUE,
                                                   !.err = e]
  /\ UNCHANGED otherThanBoot

\* init's body resumes after `await this.db.open()`: initialized is set and
\* the promise fulfilled, or the catch block rethrows and the promise rejects.
InitResumes ==
  /\ boot.settled
  /\ boot' = IF boot.db = "open"
             THEN [boot EXCEPT !.settled = FALSE, !.initialized = TRUE,
                               !.initPromise = "fulfilled"]
             ELSE [boot EXCEPT !.settled = FALSE, !.initPromise = "rejected"]
  /\ UNCHANGED otherThanBoot

\* The accessor's `await this.ensureReady()` ends with init's promise.
AccessorResume(a) ==
  LET acc == boot.accessors[a] IN
  /\ acc.pc = "waiting"
  /\ boot.initPromise \in {"fulfilled", "rejected"}
  /\ boot' = [boot EXCEPT !.accessors[a] =
                IF boot.initPromise = "fulfilled" THEN [acc EXCEPT !.pc = "ready"]
                ELSE [acc EXCEPT !.pc = "rejected", !.err = boot.err]]
  /\ UNCHANGED otherThanBoot

\* The accessor issues its table operation.
AccessorTable(a) ==
  LET acc == boot.accessors[a] IN
  /\ acc.pc = "ready"
  /\ boot' = [boot EXCEPT !.tableOps = @ + 1,
                          !.accessors[a] = [acc EXCEPT !.pc = "done",
                                                       !.early = boot.db # "open"]]
  /\ UNCHANGED otherThanBoot

NextOpen ==
  \/ InitCalled \/ OpenSettles \/ InitResumes
  \/ \E a \in 1..MaxAccessors : AccessorCall(a) \/ AccessorResume(a) \/ AccessorTable(a)

SpecOpen == Init /\ [][NextOpen]_vars

\* C28: the database is opened at most once, however many accessors and
\* init() calls come before it is open, and no accessor issues its table
\* operation before that opening has completed.
C28_OpenedOnceBeforeUse ==
  /\ boot.opens <= 1
  /\ \A a \in 1..MaxAccessors : boot.accessors[a].pc = "done" => ~boot.accessors[a].early

\* Two accessors called before the database was open have both done their
\* table operation.
C28_Witness ==
  \E a1, a2 \in 1..MaxAccessors :
    /\ a1 # a2
    /\ boot.accessors[a1].pc = "done" /\ boot.accessors[a1].waited
    /\ boot.accessors[a2].pc = "done" /\ boot.accessors[a2].waited
    /\ boot.opens = 1 /\ boot.inits >= 3

\* C29: when the opening has failed, no accessor issues a table operation,
\* and every accessor whose await has ended, whether it was waiting or was
\* called later, is rejected with the error db.open() rejected with.
C29_OpenFailureReachesAll ==
  boot.db = "failed" =>
    /\ boot.tableOps = 0
    /\ \A a \in 1..MaxAccessors :
         LET acc == boot.accessors[a] IN
         /\ acc.pc \in {"idle", "waiting", "rejected"}
         /\ acc.pc = "rejected" => acc.err = boot.err /\ boot.err \in OpenErrors
         /\ (acc.pc = "waiting" /\ boot.initPromise = "rejected") => ENABLED AccessorResume(a)

C29_Witness ==
  \E a1, a2 \in 1..MaxAccessors :
    /\ boot.db = "failed"
    /\ boot.accessors[a1].pc = "rejected" /\ ~boot.accessors[a1].late
    /\ boot.accessors[a2].pc = "rejected" /\ boot.accessors[a2].late

\* ------------------------------------- ApiService: the request interceptors
MaxTokens == 2
MaxRequests == 2

\* TOKEN_TTL, 30 minutes.
TOKEN_TTL == 30

\* The methods as axios writes them in config.method.
Methods == {"get", "post", "put", "patch", "delete"}
Urls == {"/users", "https://other.example/hook"}

\* method.toUpperCase()
MethodUpper(method) ==
  CASE method = "get" -> "GET" [] method = "post" -> "POST" [] method = "put" -> "PUT"
    [] method = "patch" -> "PATCH" [] method = "delete" -> "DELETE"

UNSAFE_METHODS == {"POST", "PUT", "PATCH", "DELETE"}

RequiresCsrfProtection(method) == MethodUpper(method) \in UNSAFE_METHODS

\* requestUrl.startsWith('http') && !requestUrl.startsWith(baseUrl)
ExternalUrl(url) == url = "https://other.example/hook"

IsTokenValid(h, t) == h.token # 0 /\ h.tokenExpiry # 0 /\ h.tokenExpiry > t

\* getToken() through to its return: a valid token is kept; else
\* refreshToken generates one, generateToken drawing a value not used before.
GetToken(h, t) ==
  IF IsTokenValid(h, t) THEN h
  ELSE [h EXCEPT !.token = h.generated + 1, !.generated = @ + 1,
                 !.tokenExpiry = t + TOKEN_TTL]

\* csrfInterceptor(config): the header is set for an unsafe method on a URL
\* of the API.
CsrfIntercept(cfg, h, t) ==
  IF ~RequiresCsrfProtection(cfg.method) \/ ExternalUrl(cfg.url) THEN cfg
  ELSE [cfg EXCEPT !.headers = @ \cup {"X-CSRF-Token"}, !.token = GetToken(h, t).token]

\* (The interceptor chain with the csrfInterceptor registered as well.)
InterceptorsWithCsrf == <<"auth", "requestId", "network", "csrf">>

\* setupInterceptors: the request interceptors, in the order registered.
RequestInterceptors == <<"auth", "requestId", "network">>

\* One request interceptor applied to a config.
Intercept(name, cfg, h, t) ==
  CASE name = "auth" ->
         IF h.authToken THEN [cfg EXCEPT !.headers = @ \cup {"Authorization"}] ELSE cfg
    [] name = "requestId" -> [cfg EXCEPT !.headers = @ \cup {"X-Request-ID"}]
    [] name = "network" -> IF ~online THEN [cfg EXCEPT !.rejected = TRUE] ELSE cfg
    [] name = "csrf" -> CsrfIntercept(cfg, h, t)

\* axios runs the request interceptors last registered first; a rejection
\* skips the rest.
RECURSIVE RunInterceptors(_, _, _, _)
RunInterceptors(chain, cfg, h, t) ==
  IF chain = <<>> \/ cfg.rejected THEN cfg
  ELSE RunInterceptors(SubSeq(chain, 1, Len(chain) - 1),
                       Intercept(chain[Len(chain)], cfg, h, t), h, t)

\* axios.create: the default headers.
NewConfig(method, url) ==
  [method |-> method, url |-> url, headers |-> {"Content-Type", "x-api-key"},
   token |-> 0, rejected |-> FALSE]

otherThanHttp ==
  <<netVars, now, probe, boot, dbFaulty, storeVars, cacheVars, engineVars, repoVars, remoteVars>>

\* apiService.get/post/put/patch/delete(url): the config passes the request
\* interceptors and, unless one rejected, the request leaves.
ApiRequest ==
  /\ Cardinality(http.wire) < MaxRequests
  /\ \E method \in Methods :
       LET cfg == RunInterceptors(RequestInterceptors, NewConfig(method, "/users"), http, now)
           h1 == IF "X-CSRF-Token" \in cfg.headers THEN GetToken(http, now) ELSE http
       IN /\ ~cfg.rejected
          /\ [method |-> MethodUpper(method), headers |-> cfg.headers] \notin http.wire
          /\ http' = [h1 EXCEPT !.wire = @ \cup {[method |-> MethodUpper(method),
                                                  headers |-> cfg.headers]}]
  /\ UNCHANGED otherThanHttp

\* Login stores the auth token in localStorage; logout or a 401 removes it.
AuthChange ==
  /\ http' = [http EXCEPT !.authToken = ~@]
  /\ UNCHANGED otherThanHttp

\* csrfInterceptor called on a config by itself.
CsrfInterceptorCall ==
  /\ \E method \in Methods, url \in Urls :
       LET cfg == CsrfIntercept(NewConfig(method, url), http, now)
           h1 == IF "X-CSRF-Token" \in cfg.headers THEN GetToken(http, now) ELSE http
       IN http' = [h1 EXCEPT !.last = [method |-> MethodUpper(method),
                                       headers |-> cfg.headers, token |-> cfg.token]]
  /\ http.generated < MaxTokens
  /\ UNCHANGED otherThanHttp

\* clearCsrfToken(), on logout.
ClearCsrfToken ==
  /\ http.token # 0
  /\ http' = [http EXCEPT !.token = 0, !.tokenExpiry = 0, !.resets = @ + 1]
  /\ UNCHANGED otherThanHttp

NextTransport ==
  \/ WindowEvent \/ Tick
  \/ ApiRequest \/ AuthChange \/ CsrfInterceptorCall \/ ClearCsrfToken

SpecTransport == Init /\ [][NextTransport]_vars

\* C30: every POST, PUT, PATCH and DELETE request that ApiService puts on the
\* wire carries the X-CSRF-Token header.
C30_UnsafeRequestsCarryCsrf ==
  \A r \in http.wire : r.method \in UNSAFE_METHODS => "X-CSRF-Token" \in r.headers

\* ------------------------------------ CsrfTokenService: concurrent callers
MaxExpiries == 1

\* getToken() up to its await, for caller g: a valid token is returned; else
\* a set tokenRefreshPromise is returned; else refreshToken() runs, which has
\* no await of its own and so stores the new token before getToken awaits.
GetTokenStart(h, g, t) ==
  IF IsTokenValid(h, t)
    THEN [h EXCEPT !.getters[g] = [pc |-> "done", ret |-> h.token, how |-> "valid",
                                   epoch |-> h.resets, forced |-> FALSE]]
  ELSE IF h.refreshing
    THEN [h EXCEPT !.getters[g] = [pc |-> "done", ret |-> h.promised, how |-> "joined",
                                   epoch |-> h.resets, forced |-> FALSE]]
  ELSE LET fresh == h.generated + 1 IN
       [h EXCEPT !.token = fresh, !.generated = fresh, !.tokenExpiry = t + TOKEN_TTL,
                 !.refreshing = TRUE, !.promised = fresh,
                 !.getters[g] = [pc |-> "awaiting", ret |-> fresh, how |-> "refreshed",
                                 epoch |-> h.resets, forced |-> FALSE]]

\* csrfTokenService.getToken() called by g.
GetTokenCall(g) ==
  /\ http.getters[g].pc = "idle"
  /\ http' = GetTokenStart(http, g, now)
  /\ UNCHANGED otherThanHttp

\* The await of getToken ends: finally sets tokenRefreshPromise to null.
GetTokenResume(g) ==
  /\ http.getters[g].pc = "awaiting"
  /\ http' = [http EXCEPT !.refreshing = FALSE, !.promised = 0, !.getters[g].pc = "done"]
  /\ UNCHANGED otherThanHttp

\* csrfTokenService.forceRefresh() called by g: the fields are reset, then
\* getToken() is called.
ForceRefresh(g) ==
  /\ http.getters[g].pc = "idle"
  /\ LET h == [http EXCEPT !.token = 0, !.tokenExpiry = 0, !.resets = @ + 1]
     IN http' = [GetTokenStart(h, g, now) EXCEPT !.getters[g].forced = TRUE]
  /\ UNCHANGED otherThanHttp

\* TOKEN_TTL passes: a token that was valid is not any more. The await of
\* getToken is on a promise already resolved, so no such time passes in it.
TokenTtlPasses ==
  /\ now < MaxExpiries * TOKEN_TTL
  /\ \A g \in 1..MaxGetters : http.getters[g].pc # "awaiting"
  /\ now' = now + TOKEN_TTL
  /\ http' = [http EXCEPT !.resets = IF IsTokenValid(http, now) THEN @ + 1 ELSE @]
  /\ UNCHANGED <<netVars, probe, boot, dbFaulty, storeVars, cacheVars, engineVars, repoVars,
                 remoteVars>>

NextTokens ==
  \/ \E g \in 1..MaxGetters : GetTokenCall(g) \/ GetTokenResume(g) \/ ForceRefresh(g)
  \/ ClearCsrfToken \/ TokenTtlPasses

SpecTokens == Init /\ [][NextTokens]_vars

\* C31: two getToken calls issued with no clearToken, no forceRefresh and no
\* expiry of the token between them resolve with the same token, also when
\* they are issued while another call is still awaiting the refresh. (The
\* getToken call that forceRefresh makes itself is left out.)
C31_SameTokenBetweenResets ==
  \A g1, g2 \in 1..MaxGetters :
    (/\ http.getters[g1].pc = "done" /\ http.getters[g2].pc = "done"
     /\ ~http.getters[g1].forced /\ ~http.getters[g2].forced
     /\ http.getters[g1].epoch = http.getters[g2].epoch)
      => http.getters[g1].ret = http.getters[g2].ret

\* C32: in MemoryCacheService and LRUCacheService a clear() that follows a
\* clear() changes nothing: the cache is as the first clear() left it, with no
\* entry, the hit, miss and eviction counters at 0, and a miss for every key.
C32_Step ==
  (/\ probe.layer \in {"mem", "lru"} /\ probe.op = "clear"
   /\ probe'.n = probe.n + 1 /\ probe'.op = "clear")
    => /\ mem' = mem /\ lru' = lru
       /\ KeysOf(probe.layer, mem', lru', idb') = {}
       /\ probe.layer = "mem" =>
            /\ mem'.hits = 0 /\ mem'.misses = 0
            /\ \A k \in ProbeKeys : MemGetValue(mem', k) = NoValue
       /\ probe.layer = "lru" =>
            /\ lru'.hits = 0 /\ lru'.misses = 0 /\ lru'.evictions = 0
            /\ lru'.head = NoKey /\ lru'.tail = NoKey
            /\ \A k \in ProbeKeys : LruGetValue(lru', k, now') = NoValue

C32_ClearTwiceIsClearOnce == [][C32_Step]_vars

C32_Witness ==
  /\ probe.layer \in {"mem", "lru"} /\ probe.twice
  /\ DOMAIN probe.written # {}

\* The keys met from k by following next (forward) or prev, at most `fuel` of
\* them; a key that is not in the Map ends the walk.
RECURSIVE LruWalk(_, _, _, _)
LruWalk(c, k, forward, fuel) ==
  IF k = NoKey \/ fuel = 0 THEN <<>>
  ELSE IF ~LruHasKey(c, k) THEN <<k>>
  ELSE <<k>> \o LruWalk(c, IF forward THEN c.nodes[k].next ELSE c.nodes[k].prev,
                        forward, fuel - 1)

Reversed(s) == [i \in 1..Len(s) |-> s[Len(s) + 1 - i]]

\* C33: after every public operation of LRUCacheService the keys of the Map
\* are the keys met from head by following next, each once; following prev
\* from tail meets them in the reverse order; head has no prev and tail no
\* next; and the order from head to tail is from the most recently used key
\* (set, read or touched) to the least recently used one.
C33_ListMatchesMap ==
  LET size == Cardinality(DOMAIN lru.nodes)
      fromHead == LruWalk(lru, lru.head, TRUE, size + 1)
      fromTail == LruWalk(lru, lru.tail, FALSE, size + 1)
  IN /\ Len(fromHead) = size
     /\ {fromHead[i] : i \in 1..Len(fromHead)} = DOMAIN lru.nodes
     /\ fromTail = Reversed(fromHead)
     /\ lru.head # NoKey => LruHasKey(lru, lru.head) /\ lru.nodes[lru.head].prev = NoKey
     /\ lru.tail # NoKey => LruHasKey(lru, lru.tail) /\ lru.nodes[lru.tail].next = NoKey
     /\ (lru.head = NoKey) = (size = 0) /\ (lru.tail = NoKey) = (size = 0)
     /\ probe.layer = "lru" => fromHead = probe.order

\* A node with a neighbour on either side has just been taken out of the
\* list, to be put at the front or to be deleted.
C33_Witness ==
  /\ probe.layer = "lru" /\ probe.mid /\ probe.ok
  /\ probe.op \in {"get", "delete"}
  /\ Cardinality(DOMAIN lru.nodes) >= 2

\* C34: set(k, ...) on a key the LRUCacheService stores, full or not, keeps
\* the stored keys as they are, counts no eviction, stores the new value and
\* leaves k at the head of the list.
C34_Step ==
  (/\ probe.layer = "lru" /\ probe'.n = probe.n + 1 /\ probe'.op = "set"
   /\ LruHasKey(lru, probe'.key))
    => /\ DOMAIN lru'.nodes = DOMAIN lru.nodes
       /\ Cardinality(DOMAIN lru'.nodes) = Cardinality(DOMAIN lru.nodes)
       /\ lru'.evictions = lru.evictions
       /\ lru'.head = probe'.key
       /\ lru'.nodes[probe'.key].value = probe'.value
       /\ lru'.nodes[probe'.key].expiresAt = now + probe'.ttl

C34_SetExistingKeepsOthers == [][C34_Step]_vars

\* The cache was full and the key set was in the middle of the list.
C34_Witness ==
  /\ probe.layer = "lru" /\ probe.op = "set" /\ probe.mid
  /\ Cardinality(DOMAIN lru.nodes) = lru.maxSize
  /\ lru.head = probe.key

\* C40: at any instant and for any key of an LRUCacheService, getTTL returns
\* a number exactly when get would return the stored value.
C40_GetTtlAgreesWithGet ==
  \A k \in ProbeKeys : (LruGetTTL(lru, k, now) > 0) = (LruGetValue(lru, k, now) # NoValue)

\* C35: within one run of sync() no operation is handed to its handler twice:
\* an operation whose handler failed goes back to pending (or to failed) and
\* the loop moves on to the next one.
C35_OncePerDrain ==
  \A r \in 1..MaxRuns :
    \A i, j \in 1..Len(runs[r].tried) : i # j => runs[r].tried[i] # runs[r].tried[j]

\* A run has ended its loop with an operation it failed on back to pending.
C35_Witness ==
  \E r \in 1..MaxRuns :
    /\ runs[r].pc = "count"
    /\ \E i \in 1..Len(runs[r].tried) :
         LET id == runs[r].tried[i] IN
         /\ id \in DOMAIN ops
         /\ ops[id].status = "pending" /\ ops[id].retries > 0

\* ------------------------- UserRepository: replays started side by side
\* Calls of syncPendingOperations that can be in progress at once: the one
\* the subscriber of onChange$ starts and one started through the service.
MaxReplays == 2

\* A restart with stored operations, as InitStored, with room for MaxReplays
\* replays.
InitOverlap ==
  /\ InitButDrains
  /\ drains = [d \in 1..MaxReplays |-> IdleDrain]
  /\ mem = MemEmpty
  /\ lru = LruEmpty
  /\ probe = NoProbe
  /\ boot = BootStart
  /\ http = HttpStart
  /\ idb = <<>>
  /\ \E q \in StoredQueues : ops = [i \in DOMAIN q |-> [q[i] EXCEPT !.id = i]]
  /\ nextId = Cardinality(DOMAIN ops) + 1

NextOverlap ==
  \/ WindowEvent \/ DebounceFire({"repository"})
  \/ ManualSync
  \/ UpdateDrainSteps

SpecOverlap == InitOverlap /\ [][NextOverlap]_vars

\* The operations whose request a replay of the Repository has sent and whose
\* record it has not yet deleted or written back, and those a run of the Sync
\* Engine has handed to a handler and not yet deleted or written back.
ReplayedByDrain(d) ==
  IF drains[d].pc \in {"api", "uncache", "cache", "done"}
  THEN {drains[d].snap[drains[d].idx].id} ELSE {}

ReplayedByRun(r) ==
  IF runs[r].pc \in {"handler", "delete"} THEN {runs[r].snap[runs[r].idx].id} ELSE {}

\* C36: no operation is being replayed by two replays at once, whether they
\* are calls of UserRepository.syncPendingOperations (from the online
\* transition, from the service) or runs of the Sync Engine.
C36_NoDoubleReplay ==
  /\ \A d1, d2 \in DOMAIN drains :
       d1 # d2 => ReplayedByDrain(d1) \cap ReplayedByDrain(d2) = {}
  /\ \A d \in DOMAIN drains, r \in 1..MaxRuns :
       ReplayedByDrain(d) \cap ReplayedByRun(r) = {}
  /\ \A r1, r2 \in 1..MaxRuns :
       r1 # r2 => ReplayedByRun(r1) \cap ReplayedByRun(r2) = {}

\* ------------------------------ UserRepository: delete beside other calls
\* getById, update and delete running side by side, after a restart.
NextRace ==
  \E c \in 1..MaxClients :
    \/ ClientStartById(c) \/ ClientGetIdb(c) \/ ClientGetApi(c) \/ ClientGetCache(c)
    \/ ClientGot(c) \/ ClientApi(c) \/ ClientCache(c) \/ ClientUncache(c)
    \/ ClientOffCache(c) \/ ClientOffEnq(c)

SpecRace == InitCached /\ [][NextRace]_vars

\* The layers that hold an entity under the key of id.
HoldingLayers(id) ==
  {l \in {"mem", "lru", "idb"} :
     CASE l = "mem" -> MemHas(mem, UserKey(id))
       [] l = "lru" -> LruHasKey(lru, UserKey(id))
       [] OTHER -> UserKey(id) \in DOMAIN idb}

\* C37: when an online delete(id) has returned and a getById(id) or
\* update(id) whose request left before the DELETE did has returned too, no
\* layer holds an entity under the key of id.
C37_DeletedStaysDeleted ==
  \A c1, c2 \in 1..MaxClients :
    (/\ c1 # c2
     /\ clients[c1].pc = "done" /\ clients[c1].kind = "delete"
     /\ clients[c1].result = "ok" /\ clients[c1].enq = 0
     /\ clients[c2].pc = "done" /\ clients[c2].kind \in {"getById", "update"}
     /\ clients[c2].id = clients[c1].id /\ clients[c2].early)
      => HoldingLayers(clients[c1].id) = {}

\* ------------------------------ OfflineSyncService: clearFailed in time
\* The Sync Engine started by hand, clearFailed called at any moment, and the
\* clock moving, so that stored operations are older than Date.now().
NextClear ==
  \/ Tick
  \/ ForceSync \/ InitCount \/ ClearFailed
  \/ RegisterHandler("doc")
  \/ EnqueueDoc
  \/ EngineSteps

SpecClear == Init /\ [][NextClear]_vars

\* C38: clearFailed removes no operation whose status is pending or
\* processing: what it removes has status failed.
C38_Step ==
  ClearFailed =>
    \A i \in DOMAIN ops : ops[i].status \in {"pending", "processing"} => i \in DOMAIN ops'

C38_ClearFailedKeepsOthers == [][C38_Step]_vars

\* ------------------------------ OfflineSyncService: drains that never stop
\* The Sync Engine with one operation queued, over a Durable Store that may
\* start rejecting requests while a drain is in progress. The store always
\* recovers, every started run goes on to its end, and sync() is called again
\* and again.
DbFailInDrain ==
  /\ \E r \in 1..MaxRuns : runs[r].pc \in Draining
  /\ DbFail

EnqueueFirst ==
  /\ nextId = 1
  /\ EnqueueDoc

NextStuck ==
  \/ DbFailInDrain \/ DbRecover
  \/ ForceSync
  \/ RegisterHandler("doc")
  \/ EnqueueFirst
  \/ EngineSteps

DrainsKeepComing ==
  /\ WF_vars(DbRecover)
  /\ WF_vars(ForceSync)
  /\ \A r \in 1..MaxRuns :
       WF_vars(RunRead(r) \/ RunMark(r) \/ RunHandler(r) \/ RunDelete(r) \/ RunCatch(r)
                 \/ RunCount(r))

SpecStuck == Init /\ [][NextStuck]_vars /\ DrainsKeepComing

\* C39: an operation in status processing, once no drain is in progress any
\* more, eventually leaves processing (deleted, back to pending, or failed),
\* at the latest when the Durable Store accepts requests again.
C39_ProcessingEventuallyLeft ==
  \A id \in 1..MaxOps :
    (HasStatus(ops, id, "processing") /\ \A r \in 1..MaxRuns : runs[r].pc \notin Draining)
      ~> (dbFaulty \/ ~HasStatus(ops, id, "processing"))
====
